---- MODULE Spec2Model ----
(***************************************************************************)
(* A model of polai, a Cedar-style authorization engine: the parser that   *)
(* turns policy tokens into statements, the condition-clause evaluator     *)
(* (shunting-yard, then stack reduction) and the forbid-then-permit        *)
(* decision procedure of Evaluator.Evaluate.                               *)
(*                                                                         *)
(* Go strings are modelled as sequences of chunks (each chunk a TLA+       *)
(* string standing for a run of characters), so that concatenation,        *)
(* prefix and substring tests are computed and never assumed.  The empty   *)
(* Go string is <<>>; a nil error is <<>> as well.                         *)
(***************************************************************************)
EXTENDS Integers, Sequences, FiniteSets, TLC

(***************************************************************************)
(* Bounds of the model.                                                    *)
(***************************************************************************)
MaxStmts == 2
MaxCalls == 1
MaxClauses == 2

\* A pointer is a sequence of at most one element; NULL is the nil pointer.
NULL == <<>>
NoErr == <<>>

(***************************************************************************)
(* Strings.                                                                *)
(***************************************************************************)
\* strings.HasPrefix
HasPrefix(s, p) == Len(s) >= Len(p) /\ SubSeq(s, 1, Len(p)) = p

\* strings.Contains
StrContains(s, p) ==
    \E i \in 1..(Len(s) - Len(p) + 1) : SubSeq(s, i, i + Len(p) - 1) = p

\* fmt's %q applied to a string: quotes around it, inner quotes and
\* backslashes escaped.
RECURSIVE Escaped(_)
Escaped(s) ==
    IF s = <<>> THEN <<>>
    ELSE (IF Head(s) \in {"\"", "\\"} THEN <<"\\", Head(s)>> ELSE <<Head(s)>>)
         \o Escaped(Tail(s))

Quoted(s) == <<"\"">> \o Escaped(s) \o <<"\"">>

\* fmt.Errorf("found %q, expected ...", lit)
Found(lit, expected) == <<"found ">> \o Quoted(lit) \o <<", expected ", expected>>

(***************************************************************************)
(* Parser (parser.go).  The reader is the sequence of tokens the scanner   *)
(* will deliver, each [tok, lit]; past its end the scanner delivers EOF    *)
(* for ever.                                                               *)
(***************************************************************************)
Tok(t, l) == [tok |-> t, lit |-> l]

EofTok == Tok("EOF", <<>>)

\* Parser.scan with an empty unscan buffer: the next token of the scanner.
scan(inp) ==
    IF inp = <<>> THEN [t |-> EofTok, rest |-> <<>>]
    ELSE [t |-> Head(inp), rest |-> Tail(inp)]

RECURSIVE scanIgnoreWhitespace(_)
scanIgnoreWhitespace(inp) ==
    LET s == scan(inp)
    IN  IF s.t.tok \in {"WHITESPC", "COMMENT"}
        THEN scanIgnoreWhitespace(s.rest)
        ELSE s

\* The loop of scanEntity / scanEntityOrFunction after the first "::".
RECURSIVE scanEntityLoop(_, _)
scanEntityLoop(name, inp) ==
    LET s == scan(inp)
    IN  IF s.t.tok = "IDENT"
        THEN LET s2 == scan(s.rest)
             IN  IF s2.t.tok # "NAMESPACE"
                 THEN [name |-> name \o s.t.lit,
                       err |-> Found(s2.t.lit, "subnamespace separator"),
                       rest |-> s2.rest]
                 ELSE scanEntityLoop(name \o s.t.lit \o <<"::">>, s2.rest)
        ELSE IF s.t.tok = "DBLQUOTESTR"
        THEN [name |-> name \o s.t.lit, err |-> NoErr, rest |-> s.rest]
        ELSE [name |-> name,
              err |-> Found(s.t.lit, "double quoted string or entity namespace"),
              rest |-> s.rest]

scanEntity(inp) ==
    LET s == scanIgnoreWhitespace(inp)
    IN  IF s.t.tok # "IDENT"
        THEN [name |-> s.t.lit, err |-> Found(s.t.lit, "entity namespace"),
              rest |-> s.rest]
        ELSE LET s2 == scan(s.rest)
             IN  IF s2.t.tok # "NAMESPACE"
                 THEN [name |-> s.t.lit,
                       err |-> Found(s2.t.lit, "namespace separator"),
                       rest |-> s2.rest]
                 ELSE scanEntityLoop(s.t.lit \o <<"::">>, s2.rest)

Item(t, l, n) == [Token |-> t, Literal |-> l, Normalized |-> n]

EmptyItem == Item("ILLEGAL", <<>>, <<>>)

\* scanEntityOrFunction: an identifier directly followed by "(" is a
\* function name (the parenthesis is unscanned), otherwise an entity.
scanEntityOrFunction(inp) ==
    LET s == scanIgnoreWhitespace(inp)
    IN  IF s.t.tok # "IDENT"
        THEN [item |-> EmptyItem, err |-> Found(s.t.lit, "entity namespace"),
              rest |-> s.rest]
        ELSE LET s2 == scan(s.rest)
             IN  IF s2.t.tok = "LEFT_PAREN"
                 THEN [item |-> Item("FUNCTION", s.t.lit, s.t.lit),
                       err |-> NoErr, rest |-> s.rest]
                 ELSE IF s2.t.tok # "NAMESPACE"
                 THEN [item |-> EmptyItem,
                       err |-> Found(s2.t.lit, "namespace separator"),
                       rest |-> s2.rest]
                 ELSE LET entity(e) ==
                              IF e.err # NoErr
                              THEN [item |-> EmptyItem, err |-> e.err, rest |-> e.rest]
                              ELSE [item |-> Item("ENTITY", e.name, e.name),
                                    err |-> NoErr, rest |-> e.rest]
                      IN  entity(scanEntityLoop(s.t.lit \o <<"::">>, s2.rest))

(***************************************************************************)
(* Long literals: decimal text <-> integer, over the longs of the model.   *)
(***************************************************************************)
LongRange == -64..64

\* strconv.FormatInt(i, 10)
FormatInt(i) == <<ToString(i)>>

\* strconv.ParseInt(lit, 10, 64): ok is FALSE when lit is not a long.
ParseInt(lit) ==
    IF \E i \in LongRange : FormatInt(i) = lit
    THEN [ok |-> TRUE, val |-> CHOOSE i \in LongRange : FormatInt(i) = lit]
    ELSE [ok |-> FALSE, val |-> 0]

\* The tokens scanConditionClause copies into the clause unchanged.
ClausePlainTokens ==
    {"TRUE", "FALSE", "DBLQUOTESTR", "PRINCIPAL", "ACTION", "RESOURCE",
     "CONTEXT", "LEFT_SQB", "LEFT_PAREN", "RIGHT_SQB", "RIGHT_PAREN", "COMMA",
     "HAS", "LIKE", "EQUALITY", "INEQUALITY", "LT", "LTE", "GT", "GTE", "IN",
     "EXCLAMATION", "DASH", "PLUS", "MULTIPLIER", "AND", "OR", "IF", "THEN",
     "ELSE"}

\* The loop of scanConditionClause: t is the token just scanned, rest what
\* follows it, seq the clause so far.
RECURSIVE scanConditionLoop(_, _, _, _)
scanConditionLoop(seq, braceLevel, t, rest) ==
    LET plain == Item(t.tok, t.lit, t.lit)
        next(sq, lvl, r) ==
            LET s == scanIgnoreWhitespace(r)
            IN  scanConditionLoop(sq, lvl, s.t, s.rest)
    IN  IF ~(t.tok # "RIGHT_BRACE" \/ braceLevel > 0)
        THEN [seq |-> seq, err |-> NoErr, rest |-> rest]
        ELSE IF t.tok = "LEFT_BRACE"
        THEN next(Append(seq, plain), braceLevel + 1, rest)
        ELSE IF t.tok = "RIGHT_BRACE"
        THEN next(Append(seq, plain), braceLevel - 1, rest)
        ELSE IF t.tok = "IDENT"
        THEN LET entity(e) ==
                     IF e.err # NoErr
                     THEN [seq |-> seq, err |-> e.err, rest |-> e.rest]
                     ELSE next(Append(seq, e.item), braceLevel, e.rest)
             IN  entity(scanEntityOrFunction(<<t>> \o rest))
        ELSE IF t.tok = "PERIOD"
        THEN LET s1 == scan(rest)
                 s2 == scan(s1.rest)
             IN  IF s1.t.tok # "IDENT"
                 THEN [seq |-> seq,
                       err |-> Found(s1.t.lit, "attribute or function"),
                       rest |-> s1.rest]
                 ELSE IF s2.t.tok # "LEFT_PAREN"
                 THEN next(seq \o <<plain, Item("ATTRIBUTE", s1.t.lit, s1.t.lit)>>,
                           braceLevel, s1.rest)
                 ELSE next(seq \o <<plain, Item("FUNCTION", s1.t.lit, s1.t.lit)>>,
                           braceLevel, s1.rest)
        ELSE IF t.tok = "LONG"
        THEN LET i == ParseInt(t.lit)
             IN  IF ~i.ok
                 THEN [seq |-> seq, err |-> <<"error parsing long">>, rest |-> rest]
                 ELSE next(Append(seq, Item("LONG", t.lit, FormatInt(i.val))),
                           braceLevel, rest)
        ELSE IF t.tok \in ClausePlainTokens
        THEN next(Append(seq, plain), braceLevel, rest)
        ELSE [seq |-> seq,
              err |-> <<"unexpected token found in condition clause ">>
                      \o Quoted(t.lit),
              rest |-> rest]

scanConditionClause(condType, inp) ==
    LET s == scanIgnoreWhitespace(inp)
    IN  IF s.t.tok # "LEFT_BRACE"
        THEN [clause |-> NULL, err |-> Found(s.t.lit, "left brace"), rest |-> s.rest]
        ELSE LET f == scanIgnoreWhitespace(s.rest)
                 clause(r) ==
                     [clause |-> [Type |-> condType, Sequence |-> r.seq],
                      err |-> r.err, rest |-> r.rest]
             IN  clause(scanConditionLoop(<<>>, 0, f.t, f.rest))

(***************************************************************************)
(* Parser.Parse.                                                           *)
(***************************************************************************)
NewStatement ==
    [Effect |-> "ILLEGAL",
     AnyPrincipal |-> TRUE, Principal |-> <<>>, PrincipalParent |-> <<>>,
     AnyAction |-> TRUE, Action |-> <<>>, ActionParents |-> <<>>,
     AnyResource |-> TRUE, Resource |-> <<>>, ResourceParent |-> <<>>,
     Conditions |-> <<>>]

PErr(stmt, err, rest) == [stmt |-> stmt, err |-> err, rest |-> rest]

\* "== entity" or "in entity" of the principal and resource slots and the
\* "== entity" of the action slot: the entity, then the closing token.
ParseScopeEntity(stmt, field, inp, closeTok, closeName) ==
    LET entity(e) ==
            LET c == scanIgnoreWhitespace(e.rest)
            IN  IF e.err # NoErr THEN PErr(stmt, e.err, e.rest)
                ELSE IF c.t.tok # closeTok
                THEN PErr([stmt EXCEPT ![field] = e.name],
                          Found(c.t.lit, closeName), c.rest)
                ELSE PErr([stmt EXCEPT ![field] = e.name], NoErr, c.rest)
    IN  entity(scanEntity(inp))

ParsePrincipalScope(stmt, inp) ==
    LET k == scanIgnoreWhitespace(inp)
        o == scanIgnoreWhitespace(k.rest)
    IN  IF k.t.tok # "PRINCIPAL" THEN PErr(stmt, Found(k.t.lit, "principal"), k.rest)
        ELSE IF o.t.tok = "COMMA" THEN PErr(stmt, NoErr, o.rest)
        ELSE IF o.t.tok = "EQUALITY"
        THEN ParseScopeEntity([stmt EXCEPT !.AnyPrincipal = FALSE], "Principal",
                              o.rest, "COMMA", "comma")
        ELSE IF o.t.tok = "IN"
        THEN ParseScopeEntity([stmt EXCEPT !.AnyPrincipal = FALSE], "PrincipalParent",
                              o.rest, "COMMA", "comma")
        ELSE PErr(stmt, Found(o.t.lit, "comma, equality operator, or in"), o.rest)

\* A variant of ParseActionList that lets the list end behind a comma (the
\* opening bracket included): "[ ]" is a list of no entities.
RECURSIVE ParseActionListMayEnd(_, _, _)
ParseActionListMayEnd(stmt, t, rest) ==
    IF t.tok = "RIGHT_SQB" THEN PErr(stmt, NoErr, rest)
    ELSE IF t.tok # "COMMA"
    THEN PErr(stmt, Found(t.lit, "comma or right square bracket"), rest)
    ELSE LET close == scanIgnoreWhitespace(rest)
             entity(e) ==
                 LET n == scanIgnoreWhitespace(e.rest)
                 IN  IF e.err # NoErr THEN PErr(stmt, e.err, e.rest)
                     ELSE ParseActionListMayEnd(
                              [stmt EXCEPT !.ActionParents = Append(@, e.name)],
                              n.t, n.rest)
         IN  IF close.t.tok = "RIGHT_SQB" THEN PErr(stmt, NoErr, close.rest)
             ELSE entity(scanEntity(rest))

\* The loop over "[ e1, e2, ... ]" of an action scope: t is the token that
\* must be a comma (the opening bracket counts as one).
RECURSIVE ParseActionList(_, _, _)
ParseActionList(stmt, t, rest) ==
    IF t.tok = "RIGHT_SQB" THEN PErr(stmt, NoErr, rest)
    ELSE IF t.tok # "COMMA"
    THEN PErr(stmt, Found(t.lit, "comma or right square bracket"), rest)
    ELSE LET entity(e) ==
                 LET n == scanIgnoreWhitespace(e.rest)
                 IN  IF e.err # NoErr THEN PErr(stmt, e.err, e.rest)
                     ELSE ParseActionList(
                              [stmt EXCEPT !.ActionParents = Append(@, e.name)],
                              n.t, n.rest)
         IN  entity(scanEntity(rest))

ParseActionScope(stmt, inp) ==
    LET k == scanIgnoreWhitespace(inp)
        o == scanIgnoreWhitespace(k.rest)
        comma(r) ==
            LET c == scanIgnoreWhitespace(r.rest)
            IN  IF r.err # NoErr THEN r
                ELSE IF c.t.tok # "COMMA"
                THEN PErr(r.stmt, Found(c.t.lit, "comma"), c.rest)
                ELSE PErr(r.stmt, NoErr, c.rest)
    IN  IF k.t.tok # "ACTION" THEN PErr(stmt, Found(k.t.lit, "action"), k.rest)
        ELSE IF o.t.tok = "COMMA" THEN PErr(stmt, NoErr, o.rest)
        ELSE IF o.t.tok = "EQUALITY"
        THEN ParseScopeEntity([stmt EXCEPT !.AnyAction = FALSE], "Action",
                              o.rest, "COMMA", "comma")
        ELSE IF o.t.tok = "IN"
        THEN LET st == [stmt EXCEPT !.AnyAction = FALSE]
                 f == scanIgnoreWhitespace(o.rest)
             IN  IF f.t.tok = "IDENT"
                 THEN LET entity(e) ==
                              IF e.err # NoErr THEN PErr(st, e.err, e.rest)
                              ELSE comma(PErr([st EXCEPT !.ActionParents = <<e.name>>],
                                              NoErr, e.rest))
                      IN  entity(scanEntity(<<f.t>> \o f.rest))
                 ELSE IF f.t.tok = "LEFT_SQB"
                 THEN comma(ParseActionList(st, Tok("COMMA", f.t.lit), f.rest))
                 ELSE PErr(st, Found(f.t.lit, "entity or left square bracket"), f.rest)
        ELSE PErr(stmt, Found(o.t.lit, "comma, equality operator, or in"), o.rest)

ParseResourceScope(stmt, inp) ==
    LET k == scanIgnoreWhitespace(inp)
        o == scanIgnoreWhitespace(k.rest)
    IN  IF k.t.tok # "RESOURCE" THEN PErr(stmt, Found(k.t.lit, "resource"), k.rest)
        ELSE IF o.t.tok = "RIGHT_PAREN" THEN PErr(stmt, NoErr, o.rest)
        ELSE IF o.t.tok = "EQUALITY"
        THEN ParseScopeEntity([stmt EXCEPT !.AnyResource = FALSE], "Resource",
                              o.rest, "RIGHT_PAREN", "right parentheses")
        ELSE IF o.t.tok = "IN"
        THEN ParseScopeEntity([stmt EXCEPT !.AnyResource = FALSE], "ResourceParent",
                              o.rest, "RIGHT_PAREN", "right parentheses")
        ELSE PErr(stmt, Found(o.t.lit, "right parentheses, equality operator, or in"),
                  o.rest)

\* The condition clauses of a statement and its semicolon: t is the token
\* after the scope (or after the previous clause).
RECURSIVE ParseConditions(_, _, _)
ParseConditions(stmt, t, rest) ==
    IF t.tok \in {"WHEN", "UNLESS"}
    THEN LET clause(c) ==
                 LET n == scanIgnoreWhitespace(c.rest)
                 IN  IF c.err # NoErr THEN PErr(stmt, c.err, c.rest)
                     ELSE ParseConditions(
                              [stmt EXCEPT !.Conditions = Append(@, c.clause)],
                              n.t, n.rest)
         IN  clause(scanConditionClause(t.tok, rest))
    ELSE IF t.tok # "SEMICOLON" THEN PErr(stmt, Found(t.lit, "semicolon"), rest)
    ELSE PErr(stmt, NoErr, rest)

\* One turn of the loop of Parse: t is the statement's first token.
ParseStatement(t, rest) ==
    LET stmt == [NewStatement EXCEPT !.Effect = t.tok]
        lp == scanIgnoreWhitespace(rest)
        conditions(r) ==
            LET f == scanIgnoreWhitespace(r.rest)
            IN  IF r.err # NoErr THEN r
                ELSE ParseConditions(r.stmt, f.t, f.rest)
        resource(a) ==
            IF a.err # NoErr THEN a
            ELSE conditions(ParseResourceScope(a.stmt, a.rest))
        action(p) ==
            IF p.err # NoErr THEN p
            ELSE resource(ParseActionScope(p.stmt, p.rest))
    IN  IF t.tok \notin {"PERMIT", "FORBID"}
        THEN PErr(NewStatement, Found(t.lit, "permit or forbid"), rest)
        ELSE IF lp.t.tok # "LEFT_PAREN"
        THEN PErr(stmt, Found(lp.t.lit, "left parentheses"), lp.rest)
        ELSE action(ParsePrincipalScope(stmt, lp.rest))

\* A variant of ParseLoop that, at a malformed statement, returns the
\* statements parsed so far when there are any.
RECURSIVE ParseLoopKeepsParsed(_, _, _)
ParseLoopKeepsParsed(stmts, t, rest) ==
    IF t.tok = "EOF" THEN [stmts |-> stmts, err |-> NoErr, rest |-> rest]
    ELSE LET statement(s) ==
                 LET n == scanIgnoreWhitespace(s.rest)
                 IN  IF s.err # NoErr
                     THEN [stmts |-> stmts,
                           err |-> IF stmts = <<>> THEN s.err ELSE NoErr,
                           rest |-> s.rest]
                     ELSE ParseLoopKeepsParsed(Append(stmts, s.stmt), n.t, n.rest)
         IN  statement(ParseStatement(t, rest))

RECURSIVE ParseLoop(_, _, _)
ParseLoop(stmts, t, rest) ==
    IF t.tok = "EOF" THEN [stmts |-> stmts, err |-> NoErr, rest |-> rest]
    ELSE LET statement(s) ==
                 LET n == scanIgnoreWhitespace(s.rest)
                 IN  IF s.err # NoErr
                     THEN [stmts |-> <<>>, err |-> s.err, rest |-> s.rest]
                     ELSE ParseLoop(Append(stmts, s.stmt), n.t, n.rest)
         IN  statement(ParseStatement(t, rest))

\* Parser.Parse on a reader holding inp: the statements, or an error, and
\* what is left of the reader.
Parse(inp) ==
    LET f == scanIgnoreWhitespace(inp)
    IN  IF f.t.tok = "EOF"
        THEN [stmts |-> <<>>, err |-> <<"no policy statements found">>, rest |-> f.rest]
        ELSE ParseLoop(<<>>, f.t, f.rest)

(***************************************************************************)
(* Entity store (entitystore.go).  The store's reader holds a sequence of  *)
(* chunks: one per JSON array element (a raw entity, a record), and "NUL"  *)
(* for a zero byte.  A store is [r, entities]: the unread text and the     *)
(* parsed entities (NULL until a parse succeeds).                          *)
(***************************************************************************)
NulByte == "NUL"

\* bufio.Reader.ReadBytes(delim): the data up to and including the first
\* delim; when the input ends before a delim, the data read and io.EOF.
RECURSIVE ReadBytes(_, _)
ReadBytes(r, delim) ==
    IF r = <<>> THEN [data |-> <<>>, err |-> <<"EOF">>]
    ELSE IF Head(r) = delim THEN [data |-> <<delim>>, err |-> NoErr]
    ELSE LET t == ReadBytes(Tail(r), delim)
         IN  [data |-> <<Head(r)>> \o t.data, err |-> t.err]

\* The entity list text of the model and its decoding: alice is in group
\* g, file d in folder f, action view in action all.
EntitiesJson == "[alice in g, d in f, view in all]"

\* A second entity list text, three levels deep: c is in b, b is in a.
DeepEntitiesJson == "[c in b, b in a, a]"

DeepRawEntities ==
    <<[Uid |-> <<"T", "::", "\"", "c", "\"">>,
       LowerParents |-> << <<"T", "::", "\"", "b", "\"">> >>, Attrs |-> <<>>],
      [Uid |-> <<"T", "::", "\"", "b", "\"">>,
       LowerParents |-> << <<"T", "::", "\"", "a", "\"">> >>, Attrs |-> <<>>],
      [Uid |-> <<"T", "::", "\"", "a", "\"">>, LowerParents |-> <<>>, Attrs |-> <<>>]>>

RawEntities ==
    [t \in {EntitiesJson, DeepEntitiesJson} |->
      IF t = DeepEntitiesJson THEN DeepRawEntities ELSE
        <<[Uid |-> <<"User", "::", "\"", "alice", "\"">>,
           LowerParents |-> << <<"Group", "::", "\"", "g", "\"">> >>,
           Attrs |-> <<[Name |-> <<"s">>, kind |-> "string", val |-> <<"abc">>]>>],
          [Uid |-> <<"Group", "::", "\"", "g", "\"">>, LowerParents |-> <<>>,
           Attrs |-> <<>>],
          [Uid |-> <<"File", "::", "\"", "d", "\"">>,
           LowerParents |-> << <<"Folder", "::", "\"", "f", "\"">> >>, Attrs |-> <<>>],
          [Uid |-> <<"Folder", "::", "\"", "f", "\"">>, LowerParents |-> <<>>,
           Attrs |-> <<>>],
          [Uid |-> <<"Action", "::", "\"", "view", "\"">>,
           LowerParents |-> << <<"Action", "::", "\"", "all", "\"">> >>, Attrs |-> <<>>],
          [Uid |-> <<"Action", "::", "\"", "all", "\"">>, LowerParents |-> <<>>,
           Attrs |-> <<>>]>>]

\* json.Unmarshal into []rawEntity.  A zero byte is no JSON; the entity
\* list texts the model uses are decoded by the table RawEntities.
Unmarshal(b) ==
    IF \E i \in 1..Len(b) : b[i] = NulByte
    THEN [raw |-> <<>>, err |-> <<"invalid character '\\x00' after top-level value">>]
    ELSE IF Len(b) = 1 /\ b[1] \in DOMAIN RawEntities
    THEN [raw |-> RawEntities[b[1]], err |-> NoErr]
    ELSE [raw |-> <<>>, err |-> <<"unexpected end of JSON input">>]

\* The attributes of a raw entity in uid form: a JSON number decodes to a
\* float64, which the type switch does not list.
RECURSIVE ConvertAttrs(_)
ConvertAttrs(attrs) ==
    IF attrs = <<>> THEN [attrs |-> <<>>, err |-> NoErr]
    ELSE LET a == Head(attrs)
             t == ConvertAttrs(Tail(attrs))
         IN  IF a.kind \notin {"string", "bool"}
             THEN [attrs |-> <<>>, err |-> <<"unknown type in attribute block">>]
             ELSE IF t.err # NoErr THEN t
             ELSE [attrs |-> <<a>> \o t.attrs, err |-> NoErr]

RECURSIVE ConvertEntities(_)
ConvertEntities(raw) ==
    IF raw = <<>> THEN [entities |-> <<>>, err |-> NoErr]
    ELSE LET e == Head(raw)
             a == ConvertAttrs(e.Attrs)
             t == ConvertEntities(Tail(raw))
         IN  IF e.Uid = <<>>
             THEN [entities |-> <<>>,
                   err |-> <<"no entity identifier found in entity list item">>]
             ELSE IF a.err # NoErr THEN [entities |-> <<>>, err |-> a.err]
             ELSE IF t.err # NoErr THEN t
             ELSE [entities |->
                       <<[Identifier |-> e.Uid, Parents |-> e.LowerParents,
                          Attributes |-> a.attrs]>> \o t.entities,
                   err |-> NoErr]

\* EntityStore.GetEntities.  A list that was read would be kept in
\* store.entities; no read succeeds, see ReadBytes and Unmarshal.
GetEntities(store) ==
    IF store[1].entities # NULL THEN [entities |-> store[1].entities[1], err |-> NoErr]
    ELSE LET unmarshalled(u) ==
                 IF u.err # NoErr THEN [entities |-> <<>>, err |-> u.err]
                 ELSE ConvertEntities(u.raw)
             read(b) ==
                 IF b.err # NoErr THEN [entities |-> <<>>, err |-> b.err]
                 ELSE unmarshalled(Unmarshal(b.data))
         IN  read(ReadBytes(store[1].r, NulByte))

\* A variant of contains that finds nothing.
containsNothing(s, str) == FALSE

\* utils.go
contains(s, str) == \E i \in 1..Len(s) : s[i] = str

containsEntity(list, id) == \E i \in 1..Len(list) : list[i].Identifier = id

\* The inner loop of GetEntityDescendents over one entity's parents.
RECURSIVE AppendIfChild(_, _, _, _)
AppendIfChild(parents, parent, baseEntity, k) ==
    IF k > Len(baseEntity.Parents) THEN parents
    ELSE AppendIfChild(
             IF baseEntity.Parents[k] = parent /\ ~contains(parents, baseEntity.Identifier)
             THEN Append(parents, baseEntity.Identifier)
             ELSE parents,
             parent, baseEntity, k + 1)

\* The worklist of GetEntityDescendents: parents[i] against base entity j.
\* foundEntities is declared and never made: the first assignment to it is
\* an assignment to an entry of a nil map, a run-time panic.  The answer
\* carries the worklist as the loop left it.
RECURSIVE DescendentsLoop(_, _, _, _)
DescendentsLoop(base, parents, i, j) ==
    IF i > Len(parents)
    THEN [entities |-> <<>>, err |-> NoErr, panic |-> FALSE, parents |-> parents]
    ELSE IF j > Len(base) THEN DescendentsLoop(base, parents, i + 1, 1)
    ELSE LET ps == AppendIfChild(parents, parents[i], base[j], 1)
         IN  IF base[j].Identifier = parents[i]
             THEN [entities |-> <<>>, err |-> NoErr, panic |-> TRUE, parents |-> ps]
             ELSE DescendentsLoop(base, ps, i, j + 1)

\* EntityStore.GetEntityDescendents.
GetEntityDescendents(store, parents) ==
    LET base(g) ==
            IF g.err # NoErr THEN [entities |-> <<>>, err |-> g.err, panic |-> FALSE]
            ELSE DescendentsLoop(g.entities, parents, 1, 1)
    IN  base(GetEntities(store))

(***************************************************************************)
(* Evaluator: operator tables.                                             *)
(***************************************************************************)
OP_PRECEDENCE(t) ==
    CASE t \in {"AND", "OR"} -> 2
      [] t \in {"EQUALITY", "INEQUALITY", "LT", "LTE", "GT", "GTE", "IN", "LIKE"} -> 3
      [] t \in {"PLUS", "DASH"} -> 4
      [] t \in {"MULTIPLIER", "EXCLAMATION"} -> 5
      [] t = "PERIOD" -> 6
      [] t \in {"FUNCTION", "RIGHT_SQB"} -> 7
      [] OTHER -> 0

LEFT_ASSOCIATIVE(t) ==
    t \in {"OR", "LT", "LTE", "GT", "GTE", "IN", "LIKE", "DASH", "EXCLAMATION",
           "PERIOD", "FUNCTION"}

(***************************************************************************)
(* Evaluator.wrapIfThenElse.  The splices are appends to sub-slices of the *)
(* clause's own slice, so they depend on its capacity: re-slicing past the *)
(* capacity is a run-time panic.                                           *)
(***************************************************************************)
\* The capacity of a slice of n items built by appending them one by one.
RECURSIVE AppendedCap(_, _)
AppendedCap(n, c) == IF n <= c THEN c ELSE AppendedCap(n, IF c = 0 THEN 1 ELSE 2 * c)

\* append's growth to hold `needed` items.
GrownCap(c, needed) ==
    IF needed <= c THEN c ELSE IF needed > 2 * c THEN needed ELSE 2 * c

\* list with item at 0-based position pos, the items from pos on moved up.
InsertAt(list, pos, item) ==
    SubSeq(list, 1, pos) \o <<item>> \o SubSeq(list, pos + 1, Len(list))

LParenItem == Item("LEFT_PAREN", <<"(">>, <<"(">>)
RParenItem == Item("RIGHT_PAREN", <<")">>, <<")">>)

RECURSIVE WrapLoop(_, _, _)
WrapLoop(list, c, i) ==
    IF ~(i < Len(list)) THEN [seq |-> list, panic |-> FALSE]
    ELSE IF list[i + 1].Token = "IF"
    THEN IF i + 2 > c THEN [seq |-> list, panic |-> TRUE]
         ELSE WrapLoop(InsertAt(list, i + 1, LParenItem),
                       GrownCap(c, Len(list) + 1), i + 2)
    ELSE IF list[i + 1].Token = "THEN"
    THEN LET l1 == InsertAt(list, i, RParenItem)
             c1 == GrownCap(c, Len(list) + 1)
         IN  IF i + 3 > c1 THEN [seq |-> l1, panic |-> TRUE]
             ELSE WrapLoop(InsertAt(l1, i + 2, LParenItem),
                           GrownCap(c1, Len(l1) + 1), i + 3)
    ELSE IF list[i + 1].Token = "ELSE"
    THEN WrapLoop(InsertAt(list, i, RParenItem), GrownCap(c, Len(list) + 1), i + 2)
    ELSE WrapLoop(list, c, i + 1)

wrapIfThenElse(sequenceItemList) ==
    WrapLoop(sequenceItemList, AppendedCap(Len(sequenceItemList), 0), 0)

(***************************************************************************)
(* Evaluator.condEval, first pass: shunting-yard.                          *)
(***************************************************************************)
ShuntOperators ==
    {"EQUALITY", "INEQUALITY", "AND", "OR", "LT", "LTE", "GT", "GTE", "PLUS",
     "DASH", "MULTIPLIER", "IN", "HAS", "LIKE", "PERIOD", "EXCLAMATION", "IF",
     "THEN", "ELSE", "RECORDKEY"}

Top(stack) == stack[Len(stack)]
Pop(stack) == SubSeq(stack, 1, Len(stack) - 1)

\* ")": pop operators to the output up to the matching "(".
RECURSIVE PopToLeftParen(_, _)
PopToLeftParen(out, ops) ==
    IF Len(ops) < 1
    THEN [out |-> out, ops |-> ops, err |-> <<"mismatched parenthesis">>]
    ELSE IF Top(ops).Token # "LEFT_PAREN"
    THEN PopToLeftParen(Append(out, Top(ops)), Pop(ops))
    ELSE [out |-> out, ops |-> Pop(ops), err |-> NoErr]

\* An operator s: pop to the output the operators that bind tighter, or as
\* tight when s is left-associative.
RECURSIVE PopHigher(_, _, _)
PopHigher(out, ops, s) ==
    IF Len(ops) > 0
       /\ OP_PRECEDENCE(Top(ops).Token) # 0
       /\ (OP_PRECEDENCE(Top(ops).Token) > OP_PRECEDENCE(s.Token)
           \/ (OP_PRECEDENCE(Top(ops).Token) = OP_PRECEDENCE(s.Token)
               /\ LEFT_ASSOCIATIVE(s.Token)))
    THEN PopHigher(Append(out, Top(ops)), Pop(ops), s)
    ELSE [out |-> out, ops |-> Append(ops, s)]

\* The end of the input: the remaining operators go to the output.
RECURSIVE DrainOperators(_, _)
DrainOperators(out, ops) ==
    IF Len(ops) = 0 THEN [out |-> out, err |-> NoErr]
    ELSE IF Top(ops).Token = "LEFT_PAREN"
    THEN [out |-> out, err |-> <<"mismatched parenthesis">>]
    ELSE DrainOperators(Append(out, Top(ops)), Pop(ops))

UnknownToken(t) == <<"unknown token: (", t, ")">>

RECURSIVE ShuntLoop(_, _, _, _, _)
ShuntLoop(seq, i, out, ops, req) ==
    IF i > Len(seq) THEN DrainOperators(out, ops)
    ELSE LET s == seq[i]
             t == s.Token
             push(o) == ShuntLoop(seq, i + 1, Append(out, o), ops, req)
             stack(o) == ShuntLoop(seq, i + 1, out, Append(ops, o), req)
         IN  IF t \in {"TRUE", "FALSE", "LONG", "DBLQUOTESTR", "ENTITY", "ATTRIBUTE"}
             THEN push(s)
             ELSE IF t = "PRINCIPAL" THEN push(Item("ENTITY", s.Literal, req.principal))
             ELSE IF t = "ACTION" THEN push(Item("ENTITY", s.Literal, req.action))
             ELSE IF t = "RESOURCE" THEN push(Item("ENTITY", s.Literal, req.resource))
             ELSE IF t = "CONTEXT" THEN push(Item("CONTEXT", s.Literal, req.context))
             ELSE IF t \in {"LEFT_SQB", "LEFT_BRACE", "COMMA"} THEN push(s)
             ELSE IF t = "COLON"
             THEN ShuntLoop(seq, i + 1, out, Append(out, s), req)
             ELSE IF t \in {"RIGHT_SQB", "RIGHT_BRACE", "LEFT_PAREN", "FUNCTION"}
             THEN stack(s)
             ELSE IF t = "RIGHT_PAREN"
             THEN LET p == PopToLeftParen(out, ops)
                  IN  IF p.err # NoErr THEN [out |-> <<>>, err |-> p.err]
                      ELSE ShuntLoop(seq, i + 1, p.out, p.ops, req)
             ELSE IF t \in ShuntOperators
             THEN LET p == PopHigher(out, ops, s)
                  IN  ShuntLoop(seq, i + 1, p.out, p.ops, req)
             ELSE [out |-> <<>>, err |-> UnknownToken(t)]

(***************************************************************************)
(* Evaluator.condEval, second pass: reduction of the postfix sequence on   *)
(* an evaluation stack.  env is [es, asc]: the entity store (NULL when     *)
(* none is attached) and AllowShortCircuiting.                             *)
(***************************************************************************)
TrueItem == Item("TRUE", <<"true">>, <<"true">>)
FalseItem == Item("FALSE", <<"false">>, <<"false">>)
BoolItem(b) == IF b THEN TrueItem ELSE FalseItem
ErrorItem(msg) == Item("ERROR", msg, msg)
IsBool(x) == x.Token \in {"TRUE", "FALSE"}

ErrorCarriers ==
    {"ERROR", "THEN_TRUE_ELSE_ERROR", "THEN_FALSE_ELSE_ERROR",
     "THEN_ERROR_ELSE_TRUE", "THEN_ERROR_ELSE_FALSE"}

\* strings.Join(foundErrors, ". ") over the literals of the error items.
RECURSIVE JoinErrors(_)
JoinErrors(items) ==
    IF items = <<>> THEN <<>>
    ELSE LET rest == JoinErrors(Tail(items))
         IN  IF Head(items).Token \notin ErrorCarriers THEN rest
             ELSE IF rest = <<>> THEN Head(items).Literal
             ELSE Head(items).Literal \o <<". ">> \o rest

\* A variant of bubbleErrors that lets every operand through.
bubbleNothing(evalStack, items) == [bubbled |-> FALSE, st |-> evalStack]

\* bubbleErrors(&evalStack, items...): whether it bubbles, and the stack.
bubbleErrors(evalStack, items) ==
    LET bubbleOccurred == \E k \in 1..Len(items) : items[k].Token \in ErrorCarriers
    IN  [bubbled |-> bubbleOccurred,
         st |-> IF bubbleOccurred
                THEN Append(evalStack, ErrorItem(JoinErrors(items)))
                ELSE evalStack]

(***************************************************************************)
(* JSON objects (the context, record attributes) are texts of one chunk;   *)
(* json.Unmarshal is the table below: the members of each object text the  *)
(* model uses, each [Name, kind, val] with val the member's text.          *)
(***************************************************************************)
\* The address members of the context: name and text.
AddressMembers ==
    << <<"a8", <<"10", ".", "0", ".", "0", ".", "0", "/", "8">> >>,
       <<"b9", <<"10", ".", "128", ".", "0", ".", "0", "/", "9">> >>,
       <<"c9", <<"10", ".", "0", ".", "0", ".", "0", "/", "9">> >>,
       <<"g8", <<"10", ".", "0", ".", "2", ".", "7", "/", "8">> >>,
       <<"h24", <<"10", ".", "0", ".", "0", ".", "5", "/", "24">> >>,
       <<"h", <<"10", ".", "0", ".", "0", ".", "1">> >>,
       <<"h32", <<"10", ".", "0", ".", "0", ".", "1", "/", "32">> >>,
       <<"v", <<"::", "1">> >>,
       <<"v128", <<"::", "1", "/", "128">> >> >>

JsonObjects ==
    [t \in {"{}", "{\"s\":\"abc\",\"b\":true,\"n\":3,\"a8\":\"10.0.0.0/8\",...}"} |->
        IF t = "{}" THEN <<>>
        ELSE <<[Name |-> <<"s">>, kind |-> "string", val |-> <<"abc">>],
               [Name |-> <<"b">>, kind |-> "bool", val |-> <<"true">>],
               [Name |-> <<"n">>, kind |-> "number", val |-> <<"3">>]>>
             \o [k \in 1..Len(AddressMembers) |->
                    [Name |-> <<AddressMembers[k][1]>>, kind |-> "string",
                     val |-> AddressMembers[k][2]]]]

\* json.Marshal of a string: the text in quotes.
MarshalString(v) == Quoted(v)

\* The sequence item of an attribute value found in a JSON object.
AttributeItem(m) ==
    CASE m.kind = "string" -> Item("DBLQUOTESTR", MarshalString(m.val), m.val)
      [] m.kind = "number" -> Item("LONG", m.val, m.val)
      [] m.kind = "bool" -> BoolItem(m.val = <<"true">>)

\* Evaluator.getAttributeAttributeSequenceItem
getAttributeAttributeSequenceItem(sourceAttribute, attributeName) ==
    IF ~(Len(sourceAttribute) = 1 /\ sourceAttribute[1] \in DOMAIN JsonObjects)
    THEN [item |-> EmptyItem,
          err |-> IF sourceAttribute = <<>>
                  THEN <<"unexpected end of JSON input">>
                  ELSE <<"invalid character looking for beginning of value">>]
    ELSE LET obj == JsonObjects[sourceAttribute[1]]
         IN  IF \E k \in 1..Len(obj) : obj[k].Name = attributeName
             THEN [item |-> AttributeItem(
                               obj[CHOOSE k \in 1..Len(obj) : obj[k].Name = attributeName]),
                   err |-> NoErr]
             ELSE [item |-> EmptyItem, err |-> <<"attribute not set">>]

\* The attribute of an entity of the store: the first entity of that name,
\* its first attribute of that name.
EntityAttribute(entities, entityName, attributeName) ==
    IF ~containsEntity(entities, entityName)
    THEN [item |-> EmptyItem, err |-> <<"attribute not set">>]
    ELSE LET e == entities[CHOOSE k \in 1..Len(entities) :
                       /\ entities[k].Identifier = entityName
                       /\ \A l \in 1..(k - 1) : entities[l].Identifier # entityName]
             as == e.Attributes
         IN  IF ~\E k \in 1..Len(as) : as[k].Name = attributeName
             THEN [item |-> EmptyItem, err |-> <<"attribute not set">>]
             ELSE LET a == as[CHOOSE k \in 1..Len(as) :
                              /\ as[k].Name = attributeName
                              /\ \A l \in 1..(k - 1) : as[l].Name # attributeName]
                  IN  [item |-> AttributeItem(a), err |-> NoErr]

\* Evaluator.getEntityAttributeSequenceItem
getEntityAttributeSequenceItem(es, entityName, attributeName) ==
    IF es = NULL
    THEN [item |-> EmptyItem, err |-> <<"attribute access on invalid entity store">>]
    ELSE LET base(g) ==
                 IF g.err # NoErr THEN [item |-> EmptyItem, err |-> g.err]
                 ELSE EntityAttribute(g.entities, entityName, attributeName)
         IN  base(GetEntities(es))

(***************************************************************************)
(* The reducers.  Each takes the evaluation stack and gives the stack      *)
(* after the step, or the error condEval returns at once, or a panic: an   *)
(* operand read below the bottom of the stack is an index out of range.    *)
(***************************************************************************)
Ok(st) == [st |-> st, err |-> NoErr, panic |-> FALSE]
Fail(err) == [st |-> <<>>, err |-> err, panic |-> FALSE]
Panic == [st |-> <<>>, err |-> NoErr, panic |-> TRUE]

Pop2(st) == SubSeq(st, 1, Len(st) - 2)

\* case EXCLAMATION
NotOf(st, rhs) ==
    LET b == bubbleErrors(st, <<rhs>>)
    IN  IF b.bubbled THEN Ok(b.st)
        ELSE IF rhs.Token = "TRUE" THEN Ok(Append(st, FalseItem))
        ELSE IF rhs.Token = "FALSE" THEN Ok(Append(st, TrueItem))
        ELSE Ok(Append(st, ErrorItem(<<"attempted to negate non-boolean">>)))

\* case IF
IfOf(asc, st, ifResult, thenElseResult) ==
    LET i == ifResult.Token
        te == thenElseResult.Token
        b == bubbleErrors(st, <<ifResult, thenElseResult>>)
    IN  IF asc /\ ((i = "TRUE" /\ te \in {"THEN_TRUE_ELSE_TRUE", "THEN_TRUE_ELSE_FALSE",
                                          "THEN_TRUE_ELSE_ERROR"})
                   \/ (i = "FALSE" /\ te \in {"THEN_FALSE_ELSE_TRUE", "THEN_TRUE_ELSE_TRUE",
                                              "THEN_ERROR_ELSE_TRUE"}))
        THEN Ok(Append(st, TrueItem))
        ELSE IF asc /\ ((i = "TRUE" /\ te \in {"THEN_FALSE_ELSE_FALSE", "THEN_FALSE_ELSE_TRUE",
                                               "THEN_FALSE_ELSE_ERROR"})
                        \/ (i = "FALSE" /\ te \in {"THEN_FALSE_ELSE_FALSE",
                                                   "THEN_TRUE_ELSE_FALSE",
                                                   "THEN_ERROR_ELSE_FALSE"}))
        THEN Ok(Append(st, FalseItem))
        ELSE IF b.bubbled THEN Ok(b.st)
        ELSE IF (i = "TRUE" /\ te \in {"THEN_TRUE_ELSE_TRUE", "THEN_TRUE_ELSE_FALSE"})
                \/ (i = "FALSE" /\ te \in {"THEN_FALSE_ELSE_TRUE", "THEN_TRUE_ELSE_TRUE"})
        THEN Ok(Append(st, TrueItem))
        ELSE IF (i = "TRUE" /\ te \in {"THEN_FALSE_ELSE_FALSE", "THEN_FALSE_ELSE_TRUE"})
                \/ (i = "FALSE" /\ te \in {"THEN_FALSE_ELSE_FALSE", "THEN_TRUE_ELSE_FALSE"})
        THEN Ok(Append(st, FalseItem))
        ELSE Fail(<<"invalid use of if-then-else block, got if ", i, ", then-else ", te>>)

\* case THEN
ThenOf(st, thenResult, elseResult) ==
    LET t == thenResult.Token
        e == elseResult.Token
    IN  IF t \in {"TRUE", "FALSE"} /\ e \in {"ELSE_TRUE", "ELSE_FALSE"}
        THEN Ok(Append(st, Item("THEN_" \o t \o "_" \o e,
                                <<"THEN_" \o t \o "_" \o e>>,
                                <<"THEN_" \o t \o "_" \o e>>)))
        ELSE IF t \in {"TRUE", "FALSE"} /\ e = "ERROR"
        THEN Ok(Append(st, Item("THEN_" \o t \o "_ELSE_ERROR",
                                elseResult.Literal, elseResult.Normalized)))
        ELSE IF t = "ERROR" /\ e \in {"ELSE_TRUE", "ELSE_FALSE"}
        THEN Ok(Append(st, Item("THEN_ERROR_" \o e,
                                thenResult.Literal, thenResult.Normalized)))
        ELSE Ok(Append(st, ErrorItem(
                 <<"invalid use of if-then-else block, got then ", t, ", else ", e>>)))

\* case ELSE
ElseOf(st, elseResult) ==
    LET b == bubbleErrors(st, <<elseResult>>)
    IN  IF b.bubbled THEN Ok(b.st)
        ELSE IF elseResult.Token = "TRUE"
        THEN Ok(Append(st, Item("ELSE_TRUE", <<"ELSE_TRUE">>, <<"ELSE_TRUE">>)))
        ELSE IF elseResult.Token = "FALSE"
        THEN Ok(Append(st, Item("ELSE_FALSE", <<"ELSE_FALSE">>, <<"ELSE_FALSE">>)))
        ELSE Ok(Append(st, ErrorItem(
                 <<"invalid use of if-then-else block, got else ", elseResult.Token>>)))

\* An accessor's result on the stack: the item, or its error as an item.
(***************************************************************************)
(* IP addresses (package net).  An address text is a string of chunks, one *)
(* per number and per separator: 10.0.0.5/24 is "10" "." "0" "." "0" "."   *)
(* "5" "/" "24".  The IPv6 addresses of the model are ::0 to ::f, written  *)
(* "::" and "::" "1" ... "::" "f".  An IP is its sequence of 4 or 16       *)
(* bytes, an IPNet is [IP, Mask].                                          *)
(***************************************************************************)
HexDigits == <<"1", "2", "3", "4", "5", "6", "7", "8", "9", "a", "b", "c", "d", "e", "f">>

\* The index of the first chunk c of s, 0 when there is none.
IndexOfChunk(s, c) ==
    IF \E i \in 1..Len(s) : s[i] = c
    THEN CHOOSE i \in 1..Len(s) : s[i] = c /\ \A j \in 1..(i - 1) : s[j] # c
    ELSE 0

\* strings.Count(s, ":")
RECURSIVE CountColons(_)
CountColons(s) ==
    IF s = <<>> THEN 0
    ELSE (CASE Head(s) = "::" -> 2 [] Head(s) = ":" -> 1 [] OTHER -> 0)
         + CountColons(Tail(s))

\* A decimal number of at most max: -1 when c is not one.
Dtoi(c, max) ==
    IF \E n \in 0..max : ToString(n) = c
    THEN CHOOSE n \in 0..max : ToString(n) = c
    ELSE -1

\* netip.ParseAddr
ParseAddr(addr) ==
    IF /\ Len(addr) = 7
       /\ \A k \in {2, 4, 6} : addr[k] = "."
       /\ \A k \in {1, 3, 5, 7} : Dtoi(addr[k], 255) >= 0
    THEN [ok |-> TRUE, ip |-> [k \in 1..4 |-> Dtoi(addr[2 * k - 1], 255)]]
    ELSE IF addr = <<"::">>
    THEN [ok |-> TRUE, ip |-> [k \in 1..16 |-> 0]]
    ELSE IF Len(addr) = 2 /\ addr[1] = "::" /\ \E v \in 1..15 : HexDigits[v] = addr[2]
    THEN [ok |-> TRUE,
          ip |-> [k \in 1..16 |->
                     IF k = 16 THEN CHOOSE v \in 1..15 : HexDigits[v] = addr[2] ELSE 0]]
    ELSE [ok |-> FALSE, ip |-> <<>>]

\* net.CIDRMask(ones, bits)
CIDRMask(ones, bits) ==
    [k \in 1..(bits \div 8) |->
        LET o == ones - 8 * (k - 1)
        IN  IF o >= 8 THEN 255 ELSE IF o <= 0 THEN 0 ELSE 256 - 2 ^ (8 - o)]

\* b & m and b | ^m for a byte m of a CIDR mask.
ByteAnd(b, m) == b - (b % (256 - m))
ByteOrNot(b, m) == ByteAnd(b, m) + (255 - m)

\* ip[i] &= mask[i] and ip[i] |= ^mask[i], for every i.
MaskedIP(ip, mask) == [k \in 1..Len(ip) |-> ByteAnd(ip[k], mask[k])]
FilledIP(ip, mask) == [k \in 1..Len(ip) |-> ByteOrNot(ip[k], mask[k])]

\* net.ParseCIDR: the IPNet (the network number and the mask).
ParseCIDR(s) ==
    LET i == IndexOfChunk(s, "/")
        net(a, n) ==
            IF ~a.ok \/ n < 0 THEN [ok |-> FALSE, IP |-> <<>>, Mask |-> <<>>]
            ELSE [ok |-> TRUE, IP |-> MaskedIP(a.ip, CIDRMask(n, 8 * Len(a.ip))),
                  Mask |-> CIDRMask(n, 8 * Len(a.ip))]
        bits(a) == net(a, IF a.ok /\ Len(s) = i + 1 THEN Dtoi(s[i + 1], 8 * Len(a.ip)) ELSE -1)
    IN  IF i = 0 THEN [ok |-> FALSE, IP |-> <<>>, Mask |-> <<>>]
        ELSE bits(ParseAddr(SubSeq(s, 1, i - 1)))

\* IP.String
IPString(ip) ==
    CASE Len(ip) = 4 ->
            <<ToString(ip[1]), ".", ToString(ip[2]), ".", ToString(ip[3]), ".",
              ToString(ip[4])>>
      [] Len(ip) = 16 /\ (\A k \in 1..15 : ip[k] = 0) /\ ip[16] = 0 -> <<"::">>
      [] Len(ip) = 16 /\ (\A k \in 1..15 : ip[k] = 0) /\ ip[16] \in 1..15 ->
            <<"::", HexDigits[ip[16]]>>

\* The number of leading ones of a mask.
RECURSIVE MaskLength(_)
MaskLength(mask) ==
    IF mask = <<>> THEN 0
    ELSE (CHOOSE o \in 0..8 : Head(mask) = (IF o = 0 THEN 0 ELSE 256 - 2 ^ (8 - o)))
         + MaskLength(Tail(mask))

\* IPNet.String
IPNetString(n) == IPString(n.IP) \o <<"/", ToString(MaskLength(n.Mask))>>

\* IPNet.Contains
Contains(n, ip) ==
    /\ Len(ip) = Len(n.IP)
    /\ \A k \in 1..Len(ip) : ByteAnd(n.IP[k], n.Mask[k]) = ByteAnd(ip[k], n.Mask[k])

\* A text without "/" is given the prefix of a single address.
WithPrefix(lit) ==
    IF IndexOfChunk(lit, "/") # 0 THEN lit
    ELSE IF CountColons(lit) >= 2 THEN lit \o <<"/", "128">>
    ELSE lit \o <<"/", "32">>

\* The two addresses the reducers take from an IPNet.  Both loops write
\* into n.IP itself, and firstIP and lastIP are slices of that one array:
\* after the second loop both hold the last address of the range.
FirstAndLast(n) ==
    LET afterFirstLoop == MaskedIP(n.IP, n.Mask)
        afterSecondLoop == FilledIP(afterFirstLoop, n.Mask)
    IN  [firstIP |-> afterSecondLoop, lastIP |-> afterSecondLoop]

\* case FUNCTION: st is the stack, rhs its top.
FunctionOf(st, s, rhs) ==
    LET b == bubbleErrors(Pop(st), <<rhs>>)
        ip(n) ==
            IF ~n.ok THEN Ok(Append(Pop(st), ErrorItem(<<"invalid ip">>)))
            ELSE Ok(Append(Pop(st), Item("IP", rhs.Normalized, IPNetString(n))))
    IN  CASE s.Normalized = <<"ip">> ->
                IF b.bubbled THEN Ok(b.st) ELSE ip(ParseCIDR(WithPrefix(rhs.Normalized)))
          [] s.Normalized \notin {<<"ip">>, <<"decimal">>} -> Ok(Append(st, s))

\* case PERIOD, lhs an IP and rhs the function isInRange: st is the stack
\* under lhs and rhs.
IsInRangeOf(st, lhs) ==
    IF Len(st) < 1 THEN Panic
    ELSE LET insideRange == st[Len(st)]
             b == bubbleErrors(Pop(st), <<insideRange>>)
             range(ipNet, insideIpNet) ==
                 LET within(a) ==
                         Ok(Append(Pop(st), BoolItem(Contains(ipNet, a.firstIP)
                                                     /\ Contains(ipNet, a.lastIP))))
                 IN  IF ~ipNet.ok \/ ~insideIpNet.ok
                     THEN Ok(Append(Pop(st), ErrorItem(<<"invalid IP">>)))
                     ELSE within(FirstAndLast(insideIpNet))
         IN  IF b.bubbled THEN Ok(b.st)
             ELSE range(ParseCIDR(lhs.Normalized), ParseCIDR(insideRange.Normalized))

\* case EQUALITY and case INEQUALITY, lhs and rhs both IP: whether the two
\* are found equal.
EqualIPs(lhs, rhs) ==
    LET nets(lhsNet, rhsNet) ==
            LET same(l, r) ==
                    /\ IPString(l.firstIP) = IPString(r.firstIP)
                    /\ IPString(l.lastIP) = IPString(r.lastIP)
            IN  IF ~lhsNet.ok \/ ~rhsNet.ok THEN [ok |-> FALSE, equal |-> FALSE]
                ELSE [ok |-> TRUE,
                      equal |-> same(FirstAndLast(lhsNet), FirstAndLast(rhsNet))]
    IN  nets(ParseCIDR(WithPrefix(lhs.Normalized)), ParseCIDR(WithPrefix(rhs.Normalized)))

(***************************************************************************)
(* Sets.  A set value carries the JSON text of its members' normalized     *)
(* texts; contains, containsAll and containsAny read the text back.        *)
(***************************************************************************)
RECURSIVE MarshalElements(_)
MarshalElements(set) ==
    IF set = <<>> THEN <<>>
    ELSE MarshalString(Head(set))
         \o (IF Len(set) > 1 THEN <<",">> ELSE <<>>)
         \o MarshalElements(Tail(set))

\* json.Marshal of a []string: null for the nil slice.
MarshalSet(set) ==
    IF set = <<>> THEN <<"null">> ELSE <<"[">> \o MarshalElements(set) \o <<"]">>

\* The members of the array text s from position i on: inString says that
\* a member's text is being read, cur is what was read of it.
RECURSIVE UnmarshalElements(_, _, _, _, _)
UnmarshalElements(s, i, inString, cur, acc) ==
    LET fail == [ok |-> FALSE, items |-> <<>>]
    IN  IF i > Len(s) THEN fail
        ELSE IF inString
        THEN IF s[i] = "\\"
             THEN IF i + 1 > Len(s) THEN fail
                  ELSE UnmarshalElements(s, i + 2, TRUE, Append(cur, s[i + 1]), acc)
             ELSE IF s[i] = "\""
             THEN UnmarshalElements(s, i + 1, FALSE, <<>>, Append(acc, cur))
             ELSE UnmarshalElements(s, i + 1, TRUE, Append(cur, s[i]), acc)
        ELSE IF s[i] = "\"" THEN UnmarshalElements(s, i + 1, TRUE, <<>>, acc)
        ELSE IF s[i] = "," THEN UnmarshalElements(s, i + 1, FALSE, <<>>, acc)
        ELSE IF s[i] = "]" THEN [ok |-> i = Len(s), items |-> acc]
        ELSE fail

\* json.Unmarshal of a text into a []interface{}.
UnmarshalSet(s) ==
    IF s = <<"null">> THEN [ok |-> TRUE, items |-> <<>>]
    ELSE IF s # <<>> /\ Head(s) = "["
    THEN UnmarshalElements(s, 2, FALSE, <<>>, <<>>)
    ELSE [ok |-> FALSE, items |-> <<>>]

UnmarshalError == <<"invalid character looking for beginning of value">>

\* case RIGHT_SQB, the loop: pops the stack down to the "[" and collects
\* what it pops; found is FALSE when the stack has no "[".
RECURSIVE PopToLeftSqb(_, _)
PopToLeftSqb(st, rawSet) ==
    IF Len(st) < 1 THEN [found |-> FALSE, st |-> st, rawSet |-> rawSet]
    ELSE IF Top(st).Token = "LEFT_SQB"
    THEN [found |-> TRUE, st |-> Pop(st), rawSet |-> rawSet]
    ELSE PopToLeftSqb(Pop(st), Append(rawSet, Top(st)))

\* The normalized texts of the items.
NormalizedOf(items) == [k \in 1..Len(items) |-> items[k].Normalized]

\* case RIGHT_SQB
SetOf(st) ==
    LET popped(p) ==
            LET bubble(b) ==
                    IF b.bubbled THEN Ok(b.st)
                    ELSE Ok(Append(p.st, Item("SET", MarshalSet(NormalizedOf(p.rawSet)),
                                              MarshalSet(NormalizedOf(p.rawSet)))))
            IN  IF ~p.found THEN Panic ELSE bubble(bubbleErrors(p.st, p.rawSet))
    IN  popped(PopToLeftSqb(st, <<>>))

\* Whether x is one of the items.
IsMember(x, items) == \E k \in 1..Len(items) : items[k] = x

\* case PERIOD, rhs the function contains: st is the stack under lhs and
\* rhs, lhs the argument.
ContainsOf(st, lhs) ==
    IF Len(st) < 1 THEN Panic
    ELSE LET actualLhs == Top(st)
             b == bubbleErrors(Pop(st), <<actualLhs>>)
             member(actualLhsSet) ==
                 IF ~actualLhsSet.ok THEN Ok(Append(Pop(st), ErrorItem(UnmarshalError)))
                 ELSE Ok(Append(Pop(st),
                                BoolItem(IsMember(lhs.Normalized, actualLhsSet.items))))
         IN  IF b.bubbled THEN Ok(b.st)
             ELSE IF actualLhs.Token # "SET"
             THEN Ok(Append(Pop(st),
                            ErrorItem(<<"unexpected use of contains function">>)))
             ELSE member(UnmarshalSet(actualLhs.Normalized))

\* case PERIOD, rhs the function containsAll and lhs, the argument, a set.
ContainsAllOf(st, lhs) ==
    IF Len(st) < 1 THEN Panic
    ELSE LET actualLhs == Top(st)
             b == bubbleErrors(Pop(st), <<actualLhs>>)
             all(actualLhsSet, actualRhsSet) ==
                 IF ~actualLhsSet.ok \/ ~actualRhsSet.ok
                 THEN Ok(Append(Pop(st), ErrorItem(UnmarshalError)))
                 ELSE Ok(Append(Pop(st), BoolItem(
                          \A k \in 1..Len(actualRhsSet.items) :
                              IsMember(actualRhsSet.items[k], actualLhsSet.items))))
         IN  IF b.bubbled THEN Ok(b.st)
             ELSE IF actualLhs.Token # "SET"
             THEN Ok(Append(Pop(st),
                            ErrorItem(<<"unexpected use of containsAll function">>)))
             ELSE all(UnmarshalSet(actualLhs.Normalized), UnmarshalSet(lhs.Normalized))

\* A variant of containsAny that asks for every member of the argument.
ContainsAnyAsksForAll(st, lhs) == ContainsAllOf(st, lhs)

\* case PERIOD, rhs the function containsAny and lhs, the argument, a set.
ContainsAnyOf(st, lhs) ==
    IF Len(st) < 1 THEN Panic
    ELSE LET actualLhs == Top(st)
             b == bubbleErrors(Pop(st), <<actualLhs>>)
             any(actualLhsSet, actualRhsSet) ==
                 IF ~actualLhsSet.ok \/ ~actualRhsSet.ok
                 THEN Ok(Append(Pop(st), ErrorItem(UnmarshalError)))
                 ELSE Ok(Append(Pop(st), BoolItem(
                          \E k \in 1..Len(actualRhsSet.items) :
                              IsMember(actualRhsSet.items[k], actualLhsSet.items))))
         IN  IF b.bubbled THEN Ok(b.st)
             ELSE IF actualLhs.Token # "SET"
             THEN Ok(Append(Pop(st),
                            ErrorItem(<<"unexpected use of containsAny function">>)))
             ELSE any(UnmarshalSet(actualLhs.Normalized), UnmarshalSet(lhs.Normalized))

PushResult(st, r) ==
    IF r.err # NoErr THEN Ok(Append(st, ErrorItem(r.err))) ELSE Ok(Append(st, r.item))

\* case PERIOD: attribute access and, of the method calls of a FUNCTION
\* right-hand side, contains, containsAll, containsAny and isInRange.
PeriodOf(es, st, lhs, rhs) ==
    LET b == bubbleErrors(st, <<lhs, rhs>>)
    IN  IF b.bubbled THEN Ok(b.st)
        ELSE CASE lhs.Token = "CONTEXT" /\ rhs.Token = "ATTRIBUTE" ->
                    PushResult(st, getAttributeAttributeSequenceItem(
                                       lhs.Normalized, rhs.Normalized))
               [] lhs.Token = "ENTITY" /\ rhs.Token = "ATTRIBUTE" ->
                    IF es = NULL
                    THEN Ok(Append(st, ErrorItem(
                             <<"invalid attribute access (no entities available): (",
                               "PERIOD", ")">>)))
                    ELSE PushResult(st, getEntityAttributeSequenceItem(
                                            es, lhs.Normalized, rhs.Normalized))
               [] lhs.Token = "ATTRIBUTE" /\ rhs.Token = "ATTRIBUTE" ->
                    PushResult(st, getAttributeAttributeSequenceItem(
                                       lhs.Normalized, rhs.Normalized))
               [] rhs.Token = "FUNCTION" /\ rhs.Normalized = <<"contains">> ->
                    ContainsOf(st, lhs)
               [] rhs.Token = "FUNCTION" /\ lhs.Token = "SET"
                  /\ rhs.Normalized = <<"containsAll">> ->
                    ContainsAllOf(st, lhs)
               [] rhs.Token = "FUNCTION" /\ lhs.Token = "SET"
                  /\ rhs.Normalized = <<"containsAny">> ->
                    ContainsAnyOf(st, lhs)
               [] rhs.Token = "FUNCTION" /\ lhs.Token = "SET"
                  /\ rhs.Normalized \notin {<<"contains">>, <<"containsAll">>,
                                            <<"containsAny">>} ->
                    Ok(Append(st, ErrorItem(<<"unknown function: ">> \o rhs.Literal)))
               [] rhs.Token = "FUNCTION" /\ lhs.Token = "IP"
                  /\ rhs.Normalized = <<"isInRange">> ->
                    IsInRangeOf(st, lhs)
               [] rhs.Token # "FUNCTION"
                  /\ ~(lhs.Token \in {"CONTEXT", "ENTITY", "ATTRIBUTE"}
                       /\ rhs.Token = "ATTRIBUTE") ->
                    Ok(Append(st, ErrorItem(
                        <<"invalid period use, unknown function or attribute access: ",
                          lhs.Token>>)))

\* A variant of InOf that asks the store for the descendents before it
\* compares the two names.
InOfStoreFirst(es, st, lhs, rhs) ==
    LET b == bubbleErrors(st, <<lhs, rhs>>)
        descendents(d) ==
            IF d.panic THEN Panic
            ELSE IF d.err # NoErr THEN Ok(Append(st, ErrorItem(d.err)))
            ELSE Ok(Append(st, BoolItem(containsEntity(d.entities, lhs.Normalized))))
    IN  IF b.bubbled THEN Ok(b.st)
        ELSE IF lhs.Token # "ENTITY"
        THEN Ok(Append(st, ErrorItem(<<"unknown token near in: (", "IN", ")">>)))
        ELSE IF rhs.Token # "ENTITY" THEN Ok(Append(st, FalseItem))
        ELSE IF es = NULL
        THEN Ok(Append(st, BoolItem(lhs.Normalized = rhs.Normalized)))
        ELSE descendents(GetEntityDescendents(es, <<rhs.Normalized>>))

\* case IN
InOf(es, st, lhs, rhs) ==
    LET b == bubbleErrors(st, <<lhs, rhs>>)
        descendents(d) ==
            IF d.panic THEN Panic
            ELSE IF d.err # NoErr THEN Ok(Append(st, ErrorItem(d.err)))
            ELSE Ok(Append(st, BoolItem(containsEntity(d.entities, lhs.Normalized))))
    IN  IF b.bubbled THEN Ok(b.st)
        ELSE IF lhs.Token # "ENTITY"
        THEN Ok(Append(st, ErrorItem(<<"unknown token near in: (", "IN", ")">>)))
        ELSE IF rhs.Token # "ENTITY" THEN Ok(Append(st, FalseItem))
        ELSE IF lhs.Normalized = rhs.Normalized THEN Ok(Append(st, TrueItem))
        ELSE IF es = NULL THEN Ok(Append(st, FalseItem))
        ELSE descendents(GetEntityDescendents(es, <<rhs.Normalized>>))

\* Whether some entity named id has an attribute named attr.
HasAttribute(entities, id, attr) ==
    \E k \in 1..Len(entities) :
        /\ entities[k].Identifier = id
        /\ \E l \in 1..Len(entities[k].Attributes) :
               entities[k].Attributes[l].Name = attr

\* case HAS
HasOf(es, st, lhs, rhs) ==
    LET b == bubbleErrors(st, <<lhs, rhs>>)
        base(g) ==
            IF g.err # NoErr THEN Ok(Append(st, ErrorItem(g.err)))
            ELSE Ok(Append(st, BoolItem(
                     HasAttribute(g.entities, lhs.Normalized, rhs.Normalized))))
    IN  IF b.bubbled THEN Ok(b.st)
        ELSE IF lhs.Token # "ENTITY" \/ rhs.Token # "ATTRIBUTE"
        THEN Ok(Append(st, ErrorItem(<<"unknown token near has: (", "HAS", ")">>)))
        ELSE IF es = NULL THEN Ok(Append(st, FalseItem))
        ELSE base(GetEntities(es))

\* strconv.ParseInt's error text.
ParseIntError(lit) == <<"strconv.ParseInt: parsing ">> \o Quoted(lit) \o <<": invalid syntax">>

\* case LT, LTE, GT, GTE, PLUS, DASH, MULTIPLIER
ArithOf(op, st, lhs, rhs) ==
    LET b == bubbleErrors(st, <<lhs, rhs>>)
        l == ParseInt(lhs.Normalized)
        r == ParseInt(rhs.Normalized)
        long(v) == Item("LONG", FormatInt(v), FormatInt(v))
    IN  IF b.bubbled THEN Ok(b.st)
        ELSE IF lhs.Token # "LONG" \/ rhs.Token # "LONG"
        THEN Ok(Append(st, ErrorItem(
                 <<"unknown token near comparitor or math operator: (", op, ")">>)))
        ELSE IF ~l.ok THEN Ok(Append(st, ErrorItem(ParseIntError(lhs.Normalized))))
        ELSE IF ~r.ok THEN Ok(Append(st, ErrorItem(ParseIntError(rhs.Normalized))))
        ELSE CASE op = "LT" -> Ok(Append(st, BoolItem(l.val < r.val)))
               [] op = "LTE" -> Ok(Append(st, BoolItem(l.val <= r.val)))
               [] op = "GT" -> Ok(Append(st, BoolItem(l.val > r.val)))
               [] op = "GTE" -> Ok(Append(st, BoolItem(l.val >= r.val)))
               [] op = "PLUS" -> Ok(Append(st, long(l.val + r.val)))
               [] op = "DASH" -> Ok(Append(st, long(l.val - r.val)))
               [] op = "MULTIPLIER" -> Ok(Append(st, long(l.val * r.val)))

\* The comparison of case EQUALITY on operands that are no IP values.
\* A variant of EqualItems in which a boolean equals whatever is not the
\* other boolean.
EqualItemsBoolLoose(lhs, rhs) ==
    IF IsBool(lhs) THEN rhs.Token # (IF lhs.Token = "TRUE" THEN "FALSE" ELSE "TRUE")
    ELSE IF lhs.Token = rhs.Token THEN lhs.Normalized = rhs.Normalized
    ELSE FALSE

EqualItems(lhs, rhs) ==
    IF IsBool(lhs) THEN rhs.Token = lhs.Token
    ELSE IF lhs.Token = rhs.Token THEN lhs.Normalized = rhs.Normalized
    ELSE FALSE

\* case EQUALITY
EqualityOf(st, lhs, rhs) ==
    LET b == bubbleErrors(st, <<lhs, rhs>>)
    IN  IF b.bubbled THEN Ok(b.st)
        ELSE CASE lhs.Token # "IP" -> Ok(Append(st, BoolItem(EqualItems(lhs, rhs))))
               [] lhs.Token = "IP" /\ rhs.Token # "IP" -> Ok(Append(st, FalseItem))
               [] lhs.Token = "IP" /\ rhs.Token = "IP" ->
                    LET compared(c) ==
                            IF ~c.ok THEN Ok(Append(st, ErrorItem(<<"invalid ip">>)))
                            ELSE Ok(Append(st, BoolItem(c.equal)))
                    IN  compared(EqualIPs(lhs, rhs))

\* case INEQUALITY
InequalityOf(st, lhs, rhs) ==
    LET b == bubbleErrors(st, <<lhs, rhs>>)
    IN  IF b.bubbled THEN Ok(b.st)
        ELSE CASE lhs.Token # "IP" -> Ok(Append(st, BoolItem(~EqualItems(lhs, rhs))))
               [] lhs.Token = "IP" /\ rhs.Token # "IP" -> Ok(Append(st, TrueItem))
               [] lhs.Token = "IP" /\ rhs.Token = "IP" ->
                    LET compared(c) ==
                            IF ~c.ok THEN Ok(Append(st, ErrorItem(<<"invalid ip">>)))
                            ELSE Ok(Append(st, BoolItem(~c.equal)))
                    IN  compared(EqualIPs(lhs, rhs))

\* case AND
AndOf(asc, st, lhs, rhs) ==
    LET b == bubbleErrors(st, <<lhs, rhs>>)
    IN  IF asc /\ lhs.Token = "FALSE" THEN Ok(Append(st, FalseItem))
        ELSE IF b.bubbled THEN Ok(b.st)
        ELSE IF IsBool(lhs) /\ IsBool(rhs)
        THEN Ok(Append(st, BoolItem(lhs.Token = "TRUE" /\ rhs.Token = "TRUE")))
        ELSE Ok(Append(st, ErrorItem(<<"unknown token near and: (", "AND", ")">>)))

\* A variant of OrOf that short-circuits whatever AllowShortCircuiting is.
OrOfAlwaysShortCircuits(asc, st, lhs, rhs) ==
    LET b == bubbleErrors(st, <<lhs, rhs>>)
    IN  IF lhs.Token = "TRUE" THEN Ok(Append(st, TrueItem))
        ELSE IF b.bubbled THEN Ok(b.st)
        ELSE IF IsBool(lhs) /\ IsBool(rhs)
        THEN Ok(Append(st, BoolItem(lhs.Token = "TRUE" \/ rhs.Token = "TRUE")))
        ELSE Ok(Append(st, ErrorItem(<<"unknown token near or: (", "OR", ")">>)))

\* case OR
OrOf(asc, st, lhs, rhs) ==
    LET b == bubbleErrors(st, <<lhs, rhs>>)
    IN  IF asc /\ lhs.Token = "TRUE" THEN Ok(Append(st, TrueItem))
        ELSE IF b.bubbled THEN Ok(b.st)
        ELSE IF IsBool(lhs) /\ IsBool(rhs)
        THEN Ok(Append(st, BoolItem(lhs.Token = "TRUE" \/ rhs.Token = "TRUE")))
        ELSE Ok(Append(st, ErrorItem(<<"unknown token near or: (", "OR", ")">>)))

\* One turn of the reduction loop: the postfix item s against the stack.
\* (LIKE, the function decimal and the record closer are not reduced
\* here.)
ReduceStep(env, st, s) ==
    LET t == s.Token
        n == Len(st)
        rhs == st[n]
        lhs == st[n - 1]
        one == Pop(st)
        two == Pop2(st)
    IN  CASE t = "COMMA" -> Ok(st)
          [] t \in {"TRUE", "FALSE", "LONG", "DBLQUOTESTR", "ENTITY", "ATTRIBUTE",
                    "CONTEXT", "LEFT_SQB", "LEFT_BRACE", "COLON"} -> Ok(Append(st, s))
          [] t \in {"EXCLAMATION", "ELSE", "FUNCTION"} /\ n < 1 -> Panic
          [] t \in {"IF", "THEN", "PERIOD", "IN", "HAS", "LT", "LTE", "GT", "GTE", "PLUS",
                    "DASH", "MULTIPLIER", "EQUALITY", "INEQUALITY", "AND", "OR"}
             /\ n < 2 -> Panic
          [] t = "EXCLAMATION" /\ n >= 1 -> NotOf(one, rhs)
          [] t = "ELSE" /\ n >= 1 -> ElseOf(one, rhs)
          [] t = "FUNCTION" /\ n >= 1 -> FunctionOf(st, s, rhs)
          [] t = "RIGHT_SQB" -> SetOf(st)
          [] t = "IF" /\ n >= 2 -> IfOf(env.asc, two, lhs, rhs)
          [] t = "THEN" /\ n >= 2 -> ThenOf(two, lhs, rhs)
          [] t = "PERIOD" /\ n >= 2 -> PeriodOf(env.es, two, lhs, rhs)
          [] t = "IN" /\ n >= 2 -> InOf(env.es, two, lhs, rhs)
          [] t = "HAS" /\ n >= 2 -> HasOf(env.es, two, lhs, rhs)
          [] t \in {"LT", "LTE", "GT", "GTE", "PLUS", "DASH", "MULTIPLIER"} /\ n >= 2 ->
                ArithOf(t, two, lhs, rhs)
          [] t = "EQUALITY" /\ n >= 2 -> EqualityOf(two, lhs, rhs)
          [] t = "INEQUALITY" /\ n >= 2 -> InequalityOf(two, lhs, rhs)
          [] t = "AND" /\ n >= 2 -> AndOf(env.asc, two, lhs, rhs)
          [] t = "OR" /\ n >= 2 -> OrOf(env.asc, two, lhs, rhs)
          [] t \notin {"FUNCTION", "RIGHT_BRACE", "RIGHT_SQB", "LIKE"}
             /\ t \notin {"COMMA", "TRUE", "FALSE", "LONG", "DBLQUOTESTR", "ENTITY",
                          "ATTRIBUTE", "CONTEXT", "LEFT_SQB", "LEFT_BRACE", "COLON",
                          "EXCLAMATION", "IF", "THEN", "ELSE", "PERIOD", "IN", "HAS",
                          "LT", "LTE", "GT", "GTE", "PLUS", "DASH", "MULTIPLIER",
                          "EQUALITY", "INEQUALITY", "AND", "OR"} ->
                Fail(UnknownToken(t))

RECURSIVE ReduceLoop(_, _, _, _)
ReduceLoop(env, out, i, st) ==
    IF i > Len(out) THEN Ok(st)
    ELSE LET reduced(r) ==
                 IF r.panic \/ r.err # NoErr THEN r
                 ELSE ReduceLoop(env, out, i + 1, r.st)
         IN  reduced(ReduceStep(env, st, out[i]))

\* Evaluator.condEval: [item, err, panic].
condEval(env, cc, req) ==
    LET res(item, err, panic) == [item |-> item, err |-> err, panic |-> panic]
        reduced(r) ==
            IF r.panic THEN res(EmptyItem, NoErr, TRUE)
            ELSE IF r.err # NoErr THEN res(EmptyItem, r.err, FALSE)
            ELSE IF Len(r.st) # 1 THEN res(EmptyItem, <<"invalid stack state">>, FALSE)
            ELSE IF r.st[1].Token = "ERROR" THEN res(EmptyItem, r.st[1].Literal, FALSE)
            ELSE res(r.st[1], NoErr, FALSE)
        shunted(q) ==
            IF q.err # NoErr THEN res(EmptyItem, q.err, FALSE)
            ELSE reduced(ReduceLoop(env, q.out, 1, <<>>))
        wrapped(w) ==
            IF w.panic THEN res(EmptyItem, NoErr, TRUE)
            ELSE shunted(ShuntLoop(w.seq, 1, <<>>, <<>>, req))
    IN  wrapped(wrapIfThenElse(cc.Sequence))

(***************************************************************************)
(* Evaluator.Evaluate: one statement of the forbid pass or of the permit   *)
(* pass (the two loops have the same body).  An outcome is                 *)
(*   "skip"   continue with the next statement,                            *)
(*   "apply"  the statement takes effect,                                  *)
(*   "error"  Evaluate returns err,                                        *)
(*   "panic"  the goroutine panics.                                        *)
(***************************************************************************)
Outcome(k, e) == [kind |-> k, err |-> e]

ActionNsInfix == <<"::", "Action", "::", "\"">>
ActionNsPrefix == <<"Action", "::", "\"">>

\* The test of Evaluate on an action scope entity.
InActionNamespace(name) ==
    StrContains(name, ActionNsInfix) \/ HasPrefix(name, ActionNsPrefix)

ScopeNamespaceError == <<"actions in scope must use Action:: namespace">>

\* The principal scope and the resource scope.
EntityScope(es, any, equals, parent, slot) ==
    IF any THEN Outcome("apply", NoErr)
    ELSE IF equals # <<>>
    THEN IF equals # slot THEN Outcome("skip", NoErr) ELSE Outcome("apply", NoErr)
    ELSE IF parent # <<>>
    THEN IF parent = slot THEN Outcome("apply", NoErr)
         ELSE IF es = NULL THEN Outcome("skip", NoErr)
         ELSE LET descendents(d) ==
                      IF d.panic THEN Outcome("panic", NoErr)
                      ELSE IF d.err # NoErr THEN Outcome("error", d.err)
                      ELSE IF ~containsEntity(d.entities, slot)
                      THEN Outcome("skip", NoErr)
                      ELSE Outcome("apply", NoErr)
              IN  descendents(GetEntityDescendents(es, <<parent>>))
    ELSE Outcome("error", <<"unknown policy state">>)

\* A variant of ActionScope that compares `action == E` with the request
\* before it tests the namespace of E.
ActionScopeEqualityFirst(es, stmt, action) ==
    IF stmt.AnyAction THEN Outcome("apply", NoErr)
    ELSE IF stmt.Action # <<>>
    THEN IF stmt.Action # action THEN Outcome("skip", NoErr)
         ELSE IF ~InActionNamespace(stmt.Action) THEN Outcome("error", ScopeNamespaceError)
         ELSE Outcome("apply", NoErr)
    ELSE IF contains(stmt.ActionParents, action) THEN Outcome("apply", NoErr)
    ELSE IF es = NULL THEN Outcome("skip", NoErr)
    ELSE LET descendents(d) ==
                 IF d.panic THEN Outcome("panic", NoErr)
                 ELSE IF d.err # NoErr THEN Outcome("error", d.err)
                 ELSE IF \E k \in 1..Len(d.entities) :
                             ~InActionNamespace(d.entities[k].Identifier)
                 THEN Outcome("error", ScopeNamespaceError)
                 ELSE IF ~containsEntity(d.entities, action) THEN Outcome("skip", NoErr)
                 ELSE Outcome("apply", NoErr)
         IN  descendents(GetEntityDescendents(es, stmt.ActionParents))

\* A variant of ActionScope that tests the namespace of every listed entity
\* of `action in [..]`.
ActionScopeChecksListed(es, stmt, action) ==
    IF stmt.AnyAction THEN Outcome("apply", NoErr)
    ELSE IF stmt.Action # <<>>
    THEN IF ~InActionNamespace(stmt.Action) THEN Outcome("error", ScopeNamespaceError)
         ELSE IF stmt.Action # action THEN Outcome("skip", NoErr)
         ELSE Outcome("apply", NoErr)
    ELSE IF \E k \in 1..Len(stmt.ActionParents) : ~InActionNamespace(stmt.ActionParents[k])
    THEN Outcome("error", ScopeNamespaceError)
    ELSE IF contains(stmt.ActionParents, action) THEN Outcome("apply", NoErr)
    ELSE IF es = NULL THEN Outcome("skip", NoErr)
    ELSE LET descendents(d) ==
                 IF d.panic THEN Outcome("panic", NoErr)
                 ELSE IF d.err # NoErr THEN Outcome("error", d.err)
                 ELSE IF ~containsEntity(d.entities, action) THEN Outcome("skip", NoErr)
                 ELSE Outcome("apply", NoErr)
         IN  descendents(GetEntityDescendents(es, stmt.ActionParents))

\* The action scope.
ActionScope(es, stmt, action) ==
    IF stmt.AnyAction THEN Outcome("apply", NoErr)
    ELSE IF stmt.Action # <<>>
    THEN IF ~InActionNamespace(stmt.Action) THEN Outcome("error", ScopeNamespaceError)
         ELSE IF stmt.Action # action THEN Outcome("skip", NoErr)
         ELSE Outcome("apply", NoErr)
    ELSE IF contains(stmt.ActionParents, action) THEN Outcome("apply", NoErr)
    ELSE IF es = NULL THEN Outcome("skip", NoErr)
    ELSE LET descendents(d) ==
                 IF d.panic THEN Outcome("panic", NoErr)
                 ELSE IF d.err # NoErr THEN Outcome("error", d.err)
                 ELSE IF \E k \in 1..Len(d.entities) :
                             ~InActionNamespace(d.entities[k].Identifier)
                 THEN Outcome("error", ScopeNamespaceError)
                 ELSE IF ~containsEntity(d.entities, action) THEN Outcome("skip", NoErr)
                 ELSE Outcome("apply", NoErr)
         IN  descendents(GetEntityDescendents(es, stmt.ActionParents))

\* A variant of ConditionsFrom that passes over the statement when a clause
\* fails.
RECURSIVE ConditionsFromSkipsErrors(_, _, _, _)
ConditionsFromSkipsErrors(env, conds, k, req) ==
    IF k > Len(conds) THEN Outcome("apply", NoErr)
    ELSE LET clause(c) ==
                 IF c.panic THEN Outcome("panic", NoErr)
                 ELSE IF c.err # NoErr THEN Outcome("skip", NoErr)
                 ELSE IF ~IsBool(c.item) THEN Outcome("skip", NoErr)
                 ELSE IF conds[k].Type = "WHEN" /\ c.item.Token = "FALSE"
                 THEN Outcome("skip", NoErr)
                 ELSE IF conds[k].Type = "UNLESS" /\ c.item.Token = "TRUE"
                 THEN Outcome("skip", NoErr)
                 ELSE ConditionsFromSkipsErrors(env, conds, k + 1, req)
         IN  clause(condEval(env, conds[k], req))

\* A variant of ConditionsFrom that evaluates every clause before it looks
\* at their values: an error after a misaligned clause is returned.
RECURSIVE ConditionsFromEvaluatesAll(_, _, _, _)
ConditionsFromEvaluatesAll(env, conds, k, req) ==
    IF k > Len(conds) THEN Outcome("apply", NoErr)
    ELSE LET clause(c, rest) ==
                 IF c.panic THEN Outcome("panic", NoErr)
                 ELSE IF c.err # NoErr THEN Outcome("error", c.err)
                 ELSE IF ~IsBool(c.item)
                 THEN Outcome("error", <<"condition return is not boolean">>)
                 ELSE IF rest.kind \in {"error", "panic"} THEN rest
                 ELSE IF conds[k].Type = "WHEN" /\ c.item.Token = "FALSE"
                 THEN Outcome("skip", NoErr)
                 ELSE IF conds[k].Type = "UNLESS" /\ c.item.Token = "TRUE"
                 THEN Outcome("skip", NoErr)
                 ELSE rest
         IN  clause(condEval(env, conds[k], req),
                    ConditionsFromEvaluatesAll(env, conds, k + 1, req))

\* The loop over the condition clauses of a statement, from clause k.
RECURSIVE ConditionsFrom(_, _, _, _)
ConditionsFrom(env, conds, k, req) ==
    IF k > Len(conds) THEN Outcome("apply", NoErr)
    ELSE LET clause(c) ==
                 IF c.panic THEN Outcome("panic", NoErr)
                 ELSE IF c.err # NoErr THEN Outcome("error", c.err)
                 ELSE IF ~IsBool(c.item)
                 THEN Outcome("error", <<"condition return is not boolean">>)
                 ELSE IF conds[k].Type = "WHEN" /\ c.item.Token = "FALSE"
                 THEN Outcome("skip", NoErr)
                 ELSE IF conds[k].Type = "UNLESS" /\ c.item.Token = "TRUE"
                 THEN Outcome("skip", NoErr)
                 ELSE ConditionsFrom(env, conds, k + 1, req)
         IN  clause(condEval(env, conds[k], req))

\* The scope tests of a loop body: principal, then action, then resource.
ScopeOutcome(es, stmt, req) ==
    LET action(a) ==
            IF a.kind # "apply" THEN a
            ELSE EntityScope(es, stmt.AnyResource, stmt.Resource,
                             stmt.ResourceParent, req.resource)
        principal(p) ==
            IF p.kind # "apply" THEN p
            ELSE action(ActionScope(es, stmt, req.action))
    IN  principal(EntityScope(es, stmt.AnyPrincipal, stmt.Principal,
                              stmt.PrincipalParent, req.principal))

\* The body of ForbidLoop and of PermitLoop for a statement of the pass's
\* effect.
StatementOutcome(env, stmt, req) ==
    LET scope(s) ==
            IF s.kind # "apply" THEN s
            ELSE ConditionsFrom(env, stmt.Conditions, 1, req)
    IN  scope(ScopeOutcome(env.es, stmt, req))

(***************************************************************************)
(* Inputs of the model: policy texts (as the scanner's tokens), requests,  *)
(* entity stores.                                                          *)
(***************************************************************************)
Kw(t, text) == Tok(t, <<text>>)

\* The tokens of Ns1::Ns2::"id" (id: the chunks between the quotes).
RECURSIVE NamespaceTokens(_)
NamespaceTokens(ns) ==
    IF ns = <<>> THEN <<>>
    ELSE <<Kw("IDENT", Head(ns)), Kw("NAMESPACE", "::")>> \o NamespaceTokens(Tail(ns))

EntityTokens(ns, id) ==
    NamespaceTokens(ns) \o <<Tok("DBLQUOTESTR", <<"\"">> \o id \o <<"\"">>)>>

\* The canonical text of the same entity reference.
RECURSIVE NamespaceText(_)
NamespaceText(ns) ==
    IF ns = <<>> THEN <<>> ELSE <<Head(ns), "::">> \o NamespaceText(Tail(ns))

EntityName(ns, id) == NamespaceText(ns) \o <<"\"">> \o id \o <<"\"">>

Alice == [ns |-> <<"User">>, id |-> <<"alice">>]
GroupG == [ns |-> <<"Group">>, id |-> <<"g">>]
ViewAction == [ns |-> <<"Action">>, id |-> <<"view">>]
AllActions == [ns |-> <<"Action">>, id |-> <<"all">>]
NestedAction == [ns |-> <<"App", "Action">>, id |-> <<"view">>]
FooView == [ns |-> <<"Foo">>, id |-> <<"view">>]
FooQuirk == [ns |-> <<"Foo">>, id |-> <<"x", "::", "Action", "::">>]
FolderF == [ns |-> <<"Folder">>, id |-> <<"f">>]
FileD == [ns |-> <<"File">>, id |-> <<"d">>]

Name(e) == EntityName(e.ns, e.id)
Toks(e) == EntityTokens(e.ns, e.id)

\* Scope texts: what follows the slot's keyword.
ScopeAny == <<>>
ScopeEq(e) == <<Kw("EQUALITY", "==")>> \o Toks(e)
ScopeIn(e) == <<Kw("IN", "in")>> \o Toks(e)
ScopeInList(a, b) ==
    <<Kw("IN", "in"), Kw("LEFT_SQB", "[")>> \o Toks(a) \o <<Kw("COMMA", ",")>>
    \o Toks(b) \o <<Kw("RIGHT_SQB", "]")>>

CondText(type, clause) ==
    <<IF type = "WHEN" THEN Kw("WHEN", "when") ELSE Kw("UNLESS", "unless"),
      Kw("LEFT_BRACE", "{")>> \o clause \o <<Kw("RIGHT_BRACE", "}")>>

StmtText(effect, p, a, r, conds) ==
    <<IF effect = "PERMIT" THEN Kw("PERMIT", "permit") ELSE Kw("FORBID", "forbid"),
      Kw("LEFT_PAREN", "("), Kw("PRINCIPAL", "principal")>> \o p
    \o <<Kw("COMMA", ","), Kw("ACTION", "action")>> \o a
    \o <<Kw("COMMA", ","), Kw("RESOURCE", "resource")>> \o r
    \o <<Kw("RIGHT_PAREN", ")")>> \o conds \o <<Kw("SEMICOLON", ";")>>

\* Clause texts.
TTrue == Kw("TRUE", "true")
TFalse == Kw("FALSE", "false")
TOr == Kw("OR", "||")
TAnd == Kw("AND", "&&")
TNot == Kw("EXCLAMATION", "!")
TIf == Kw("IF", "if")
TThen == Kw("THEN", "then")
TElse == Kw("ELSE", "else")
TLParen == Kw("LEFT_PAREN", "(")
TRParen == Kw("RIGHT_PAREN", ")")
TPlus == Kw("PLUS", "+")
TLong(n) == Tok("LONG", FormatInt(n))
TAttr(owner, attr) == <<owner, Kw("PERIOD", "."), Kw("IDENT", attr)>>
TContext == Kw("CONTEXT", "context")
TPrincipal == Kw("PRINCIPAL", "principal")

\* The text a store is made from.
StoreText == <<EntitiesJson>>

\* NewEntityStore
NewEntityStore(r) == <<[r |-> r, entities |-> NULL]>>

ContextText == <<"{\"s\":\"abc\",\"b\":true,\"n\":3,\"a8\":\"10.0.0.0/8\",...}">>

Request(p, a, r, c) == [principal |-> p, action |-> a, resource |-> r, context |-> c]
NoRequest == Request(<<>>, <<>>, <<>>, <<>>)

Requests ==
    {Request(Name(p), Name(a), Name(r), ContextText) :
        p \in {Alice, GroupG}, a \in {ViewAction, FooView}, r \in {FolderF, FileD}}

(***************************************************************************)
(* The evaluator as a state machine.                                       *)
(*   policy     the policy text NewEvaluator was given                     *)
(*   reader     what the parser has not read of it yet                     *)
(*   es, AllowShortCircuiting   the Evaluator's fields                     *)
(*   request    the arguments of the running or last Evaluate              *)
(*   policyStatements, idx      Evaluate's locals: the pointer Parse gave  *)
(*              and the position of the running loop                       *)
(*   pc         "idle" no call yet, "forbid"/"permit" the loop running,    *)
(*              "done" Evaluate returned, "crashed" the goroutine panicked *)
(*   result     what Evaluate returned                                     *)
(*   calls      number of calls of Evaluate so far                         *)
(***************************************************************************)
VARIABLES policy, reader, es, AllowShortCircuiting, request, policyStatements,
          idx, pc, result, calls

vars == <<policy, reader, es, AllowShortCircuiting, request, policyStatements,
          idx, pc, result, calls>>

NoResult == [kind |-> "none", value |-> FALSE, err |-> NoErr]
Decision(b) == [kind |-> "decision", value |-> b, err |-> NoErr]
ErrorResult(e) == [kind |-> "error", value |-> FALSE, err |-> e]
PanicResult == [kind |-> "panic", value |-> FALSE, err |-> NoErr]

\* NewEvaluator(policyReader)
NewEvaluator(text) ==
    /\ policy = text
    /\ reader = text
    /\ es = NULL
    /\ AllowShortCircuiting = TRUE
    /\ request = NoRequest
    /\ policyStatements = NULL
    /\ idx = 0
    /\ pc = "idle"
    /\ result = NoResult
    /\ calls = 0

Env == [es |-> es, asc |-> AllowShortCircuiting]

\* Evaluator.SetEntities, before the first Evaluate.
SetEntities ==
    /\ pc = "idle"
    /\ es = NULL
    /\ es' = NewEntityStore(StoreText)
    /\ UNCHANGED <<policy, reader, AllowShortCircuiting, request, policyStatements,
                   idx, pc, result, calls>>

\* e.AllowShortCircuiting = false, before the first Evaluate.
DisableShortCircuiting ==
    /\ pc = "idle"
    /\ AllowShortCircuiting
    /\ AllowShortCircuiting' = FALSE
    /\ UNCHANGED <<policy, reader, es, request, policyStatements, idx, pc, result,
                   calls>>

\* Evaluate, up to the first loop: the call of Parse.  At most n calls are
\* made of one evaluator.
EvaluateWithin(n) ==
    /\ pc \in {"idle", "done"}
    /\ calls < n
    /\ LET parsed(p) ==
               /\ reader' = p.rest
               /\ IF p.err # NoErr
                  THEN /\ policyStatements' = NULL
                       /\ idx' = 0
                       /\ pc' = "done"
                       /\ result' = ErrorResult(p.err)
                  ELSE /\ policyStatements' = <<p.stmts>>
                       /\ idx' = 1
                       /\ pc' = "forbid"
                       /\ result' = NoResult
       IN  parsed(Parse(reader))
    /\ \E req \in Requests : request' = req
    /\ calls' = calls + 1
    /\ UNCHANGED <<policy, es, AllowShortCircuiting>>

EvaluateCall == EvaluateWithin(MaxCalls)

\* Variants of ExplicitDecision: every statement that takes effect grants;
\* every statement that takes effect denies.
ExplicitDecisionGrants(effect) == TRUE
ExplicitDecisionDenies(effect) == FALSE

\* "return false, nil // explicit forbid" and "return true, nil // explicit
\* allow".
ExplicitDecision(effect) == effect = "PERMIT"

\* What a loop does with the outcome o of its statement: the new idx, pc
\* and result.
StepResult(effect, o) ==
    CASE o.kind = "skip" -> [idx |-> idx + 1, pc |-> pc, result |-> result]
      [] o.kind = "apply" ->
            [idx |-> idx, pc |-> "done", result |-> Decision(ExplicitDecision(effect))]
      [] o.kind = "error" -> [idx |-> idx, pc |-> "done", result |-> ErrorResult(o.err)]
      [] o.kind = "panic" -> [idx |-> idx, pc |-> "crashed", result |-> PanicResult]

\* A variant of LoopStep with one pass over the statements: the statement
\* at idx is evaluated whatever its effect, and decides by its own effect.
LoopStepInSourceOrder(effect) ==
    LET stmt == policyStatements[1][idx]
        step(n) ==
            /\ idx' = n.idx
            /\ pc' = n.pc
            /\ result' = n.result
            /\ UNCHANGED <<policy, reader, es, AllowShortCircuiting, request,
                           policyStatements, calls>>
    IN  step(StepResult(stmt.Effect, StatementOutcome(Env, stmt, request)))

\* One iteration of ForbidLoop (effect FORBID) or of PermitLoop (effect
\* PERMIT).
LoopStep(effect) ==
    LET stmt == policyStatements[1][idx]
        step(n) ==
            /\ idx' = n.idx
            /\ pc' = n.pc
            /\ result' = n.result
            /\ UNCHANGED <<policy, reader, es, AllowShortCircuiting, request,
                           policyStatements, calls>>
    IN  step(StepResult(effect,
                        IF stmt.Effect = effect
                        THEN StatementOutcome(Env, stmt, request)
                        ELSE Outcome("skip", NoErr)))

ForbidStep ==
    /\ pc = "forbid"
    /\ idx <= Len(policyStatements[1])
    /\ LoopStep("FORBID")

\* ForbidLoop ends: the permit loop starts.
ForbidEnd ==
    /\ pc = "forbid"
    /\ idx > Len(policyStatements[1])
    /\ pc' = "permit"
    /\ idx' = 1
    /\ UNCHANGED <<policy, reader, es, AllowShortCircuiting, request,
                   policyStatements, result, calls>>

PermitStep ==
    /\ pc = "permit"
    /\ idx <= Len(policyStatements[1])
    /\ LoopStep("PERMIT")

\* PermitLoop ends: "return false, nil // implicit deny".
PermitEnd ==
    /\ pc = "permit"
    /\ idx > Len(policyStatements[1])
    /\ pc' = "done"
    /\ result' = Decision(FALSE)
    /\ UNCHANGED <<policy, reader, es, AllowShortCircuiting, request,
                   policyStatements, idx, calls>>

Next ==
    \/ SetEntities
    \/ DisableShortCircuiting
    \/ EvaluateCall
    \/ ForbidStep
    \/ ForbidEnd
    \/ PermitStep
    \/ PermitEnd

(***************************************************************************)
(* Policy texts.                                                           *)
(***************************************************************************)
Plain(effect) == StmtText(effect, ScopeAny, ScopeAny, ScopeAny, <<>>)

Missing == TAttr(TContext, "zz")

\* The texts of at most n statements of a pool.
RECURSIVE Texts(_, _)
Texts(pool, n) ==
    IF n = 0 THEN {<<>>}
    ELSE LET T == Texts(pool, n - 1) IN T \cup {t \o s : t \in T, s \in pool}

\* Statements for the decision procedure.
PolicyStatementPool ==
    { Plain("PERMIT"),
      Plain("FORBID"),
      StmtText("FORBID", ScopeEq(GroupG), ScopeAny, ScopeAny, <<>>),
      StmtText("PERMIT", ScopeEq(Alice), ScopeEq(ViewAction), ScopeAny, <<>>),
      StmtText("FORBID", ScopeAny, ScopeEq(FooView), ScopeAny, <<>>),
      StmtText("FORBID", ScopeAny, ScopeAny, ScopeAny, CondText("WHEN", Missing)),
      StmtText("PERMIT", ScopeAny, ScopeAny, ScopeAny, CondText("UNLESS", Missing)),
      StmtText("PERMIT", ScopeAny, ScopeAny, ScopeAny,
               CondText("WHEN", <<TTrue>>) \o CondText("UNLESS", TAttr(TContext, "b"))),
      StmtText("FORBID", ScopeAny, ScopeAny, ScopeIn(FolderF), <<>>) }

\* Statements for the scopes.
ScopeStatementPool ==
    { StmtText("PERMIT", ScopeAny, ScopeEq(FooView), ScopeAny, <<>>),
      StmtText("FORBID", ScopeIn(GroupG), ScopeEq(FooView), ScopeAny, <<>>),
      StmtText("PERMIT", ScopeAny, ScopeEq(FooQuirk), ScopeAny, <<>>),
      StmtText("PERMIT", ScopeAny, ScopeEq(NestedAction), ScopeAny, <<>>),
      StmtText("PERMIT", ScopeAny, ScopeInList(ViewAction, FooView), ScopeAny, <<>>),
      StmtText("FORBID", ScopeAny, ScopeIn(AllActions), ScopeAny, <<>>),
      StmtText("PERMIT", ScopeIn(GroupG), ScopeAny, ScopeAny, <<>>),
      StmtText("FORBID", ScopeAny, ScopeAny, ScopeIn(FileD), <<>>),
      StmtText("PERMIT", ScopeAny, ScopeAny, ScopeIn(FolderF), <<>>) }

Init == \E text \in Texts(PolicyStatementPool, MaxStmts) : NewEvaluator(text)

InitScope == \E text \in Texts(ScopeStatementPool, MaxStmts) : NewEvaluator(text)

Spec == Init /\ [][Next]_vars

SpecScope == InitScope /\ [][Next]_vars

\* Statements with at most MaxClauses condition clauses, each followed by a
\* permit statement for one principal.
TypedClauses ==
    {CondText(type, clause) :
        type \in {"WHEN", "UNLESS"}, clause \in {<<TTrue>>, <<TFalse>>, Missing}}

ConditionStatementPool ==
    {StmtText(effect, ScopeAny, ScopeAny, ScopeAny, conds)
         \o StmtText("PERMIT", ScopeEq(Alice), ScopeAny, ScopeAny, <<>>) :
        effect \in {"PERMIT", "FORBID"}, conds \in Texts(TypedClauses, MaxClauses)}

InitConds == \E text \in ConditionStatementPool : NewEvaluator(text)

SpecConds == InitConds /\ [][Next]_vars

\* Clauses `true || X`, `false && X` and `if c then a else b`.
Paren(x) == <<TLParen>> \o x \o <<TRParen>>

Operands ==
    { <<TTrue>>,
      <<TLong(1)>>,
      Missing,
      TAttr(TPrincipal, "s"),
      Paren(<<TLong(1), TPlus, TTrue>>),
      Paren(<<TNot, TLong(1)>>),
      Paren(<<TPrincipal, Kw("IN", "in")>> \o Toks(GroupG)),
      Paren(<<TIf, TLong(1), TThen, TTrue, TElse, TFalse>>) }

Branches == {<<TTrue>>, <<TFalse>>, Missing}

OrClause(x) == <<TTrue, TOr>> \o x
AndClause(x) == <<TFalse, TAnd>> \o x
IteClause(c, a, b) == <<TIf>> \o c \o <<TThen>> \o a \o <<TElse>> \o b

\* An `if` that is the right operand of `||` without parentheses.
BareIfClause == <<TTrue, TOr, TIf, TTrue, TThen, TTrue, TElse, TFalse>>

ClausePool ==
    {OrClause(x) : x \in Operands} \cup {AndClause(x) : x \in Operands}
    \cup {IteClause(c, a, b) : c \in Branches, a \in Branches, b \in Branches}
    \cup {BareIfClause}

ClausePolicy(effect, clause) ==
    StmtText(effect, ScopeAny, ScopeAny, ScopeAny, CondText("WHEN", clause))

InitClause ==
    \E effect \in {"PERMIT", "FORBID"}, clause \in ClausePool :
        NewEvaluator(ClausePolicy(effect, clause))

SpecClause == InitClause /\ [][Next]_vars

(***************************************************************************)
(* Vocabulary of the properties.                                           *)
(***************************************************************************)
\* Evaluate has returned, and Parse had given it a statement list.
Returned == pc = "done"
Parsed == policyStatements # NULL
Statements == policyStatements[1]
StatementIndexes == 1..Len(Statements)

\* The hierarchy that the text of the attached store declares: x has an
\* ancestor e at most n parent links away.
RECURSIVE DescendsWithin(_, _, _, _)
DescendsWithin(raw, x, e, n) ==
    /\ n > 0
    /\ \E k \in 1..Len(raw) :
          /\ raw[k].Uid = x
          /\ \E l \in 1..Len(raw[k].LowerParents) :
                \/ raw[k].LowerParents[l] = e
                \/ DescendsWithin(raw, raw[k].LowerParents[l], e, n - 1)

Descends(x, e) ==
    /\ es # NULL
    /\ Len(es[1].r) = 1
    /\ es[1].r[1] \in DOMAIN RawEntities
    /\ LET raw == RawEntities[es[1].r[1]] IN DescendsWithin(raw, x, e, Len(raw))

\* `slot in E` as the language defines it.
InMatch(slot, e) == slot = e \/ Descends(slot, e)

PrincipalMatches(stmt) ==
    \/ stmt.AnyPrincipal
    \/ stmt.Principal # <<>> /\ stmt.Principal = request.principal
    \/ stmt.PrincipalParent # <<>> /\ InMatch(request.principal, stmt.PrincipalParent)

ActionMatches(stmt) ==
    \/ stmt.AnyAction
    \/ stmt.Action # <<>> /\ stmt.Action = request.action
    \/ \E k \in 1..Len(stmt.ActionParents) : InMatch(request.action, stmt.ActionParents[k])

ResourceMatches(stmt) ==
    \/ stmt.AnyResource
    \/ stmt.Resource # <<>> /\ stmt.Resource = request.resource
    \/ stmt.ResourceParent # <<>> /\ InMatch(request.resource, stmt.ResourceParent)

\* The value of a clause: "TRUE", "FALSE", or "other" for an error, a panic
\* or a value that is no boolean.
ClauseValue(c) ==
    LET v == condEval(Env, c, request)
    IN  IF ~v.panic /\ v.err = NoErr /\ IsBool(v.item) THEN v.item.Token ELSE "other"

Aligned(c) == ClauseValue(c) = (IF c.Type = "WHEN" THEN "TRUE" ELSE "FALSE")
Misaligned(c) == ClauseValue(c) = (IF c.Type = "WHEN" THEN "FALSE" ELSE "TRUE")

\* The clause evaluates to an error: condEval returns one, or a value that
\* is no boolean.
ClauseFails(c) ==
    LET v == condEval(Env, c, request)
    IN  ~v.panic /\ (v.err # NoErr \/ ~IsBool(v.item))

\* A statement matches the request.
Matches(stmt) ==
    /\ PrincipalMatches(stmt)
    /\ ActionMatches(stmt)
    /\ ResourceMatches(stmt)
    /\ \A k \in 1..Len(stmt.Conditions) : Aligned(stmt.Conditions[k])

MatchingForbids == {i \in StatementIndexes : Statements[i].Effect = "FORBID" /\ Matches(Statements[i])}
MatchingPermits == {i \in StatementIndexes : Statements[i].Effect = "PERMIT" /\ Matches(Statements[i])}

Min(S) == CHOOSE i \in S : \A j \in S : i <= j

\* The statements the two loops evaluate before statement i.
EvaluatedBefore(i) ==
    IF Statements[i].Effect = "FORBID"
    THEN {j \in StatementIndexes : j < i /\ Statements[j].Effect = "FORBID"}
    ELSE {j \in StatementIndexes :
              Statements[j].Effect = "FORBID" \/ (j < i /\ Statements[j].Effect = "PERMIT")}

\* Statement i is evaluated: every statement before it was passed over.
Reached(i) ==
    \A j \in EvaluatedBefore(i) :
        StatementOutcome(Env, Statements[j], request).kind = "skip"

(***************************************************************************)
(* C1 (as stated).  If a forbid statement matches the request, Evaluate    *)
(* returns false, whatever the permit statements and wherever the forbid   *)
(* statement stands.                                                       *)
(***************************************************************************)
C1_ForbidAlwaysDenies ==
    (Returned /\ Parsed /\ MatchingForbids # {}) => result = Decision(FALSE)

(***************************************************************************)
(* C1 (amended).  If a forbid statement matches the request, Evaluate      *)
(* never returns true: it returns false, unless a forbid statement at or   *)
(* before the first matching one raises an error, and then Evaluate        *)
(* returns that error.                                                     *)
(***************************************************************************)
C1_ForbidNeverGrants ==
    (Returned /\ Parsed /\ MatchingForbids # {}) =>
        \/ result = Decision(FALSE)
        \/ \E j \in 1..Min(MatchingForbids) :
              /\ Statements[j].Effect = "FORBID"
              /\ StatementOutcome(Env, Statements[j], request).kind = "error"
              /\ result = ErrorResult(StatementOutcome(Env, Statements[j], request).err)

\* A permit statement that matches stands before a forbid statement that
\* matches, and Evaluate returned false.
C1_Witness ==
    /\ Returned /\ Parsed
    /\ \E i \in MatchingPermits : \E j \in MatchingForbids : i < j
    /\ result = Decision(FALSE)

(***************************************************************************)
(* C2.  Evaluate returns true only if some permit statement matches and no *)
(* forbid statement matches; when no statement matches and no error occurs *)
(* it returns false; a policy of the one statement                         *)
(* permit(principal, action, resource) grants every request and one of the *)
(* one statement forbid(principal, action, resource) denies every request. *)
(***************************************************************************)
C2_GrantOnlyByPermit ==
    (Returned /\ Parsed) =>
        /\ result = Decision(TRUE) => (MatchingPermits # {} /\ MatchingForbids = {})
        /\ (MatchingPermits = {} /\ MatchingForbids = {} /\ result.kind # "error")
               => result = Decision(FALSE)
        /\ Statements = Parse(Plain("PERMIT")).stmts => result = Decision(TRUE)
        /\ Statements = Parse(Plain("FORBID")).stmts => result = Decision(FALSE)

\* Evaluate granted a request under a policy that also holds a forbid
\* statement.
C2_Witness ==
    /\ Returned /\ Parsed
    /\ result = Decision(TRUE)
    /\ \E i \in StatementIndexes : Statements[i].Effect = "FORBID"

(***************************************************************************)
(* C3 (as stated).  Evaluating a policy text that contains no statements   *)
(* returns the decision false and no error, for any request.               *)
(***************************************************************************)
C3_EmptyPolicyDenies ==
    (Returned /\ policy = <<>>) => result = Decision(FALSE)

(***************************************************************************)
(* C4.  All errors abort Evaluate: whenever a loop is at a statement of    *)
(* its effect whose scope matches the request and a condition clause of    *)
(* the statement evaluates to an error (the clauses before it aligned with *)
(* their kinds), the step makes Evaluate return an error, not a decision,  *)
(* and does not pass over the statement; in the forbid loop and in the     *)
(* permit loop.                                                            *)
(***************************************************************************)
InLoop == pc \in {"forbid", "permit"} /\ idx <= Len(Statements)
LoopEffect == IF pc = "forbid" THEN "FORBID" ELSE "PERMIT"

\* The first clause of the statement that does not align is an error.
ClauseError(stmt) ==
    \E k \in 1..Len(stmt.Conditions) :
        /\ ClauseFails(stmt.Conditions[k])
        /\ \A l \in 1..(k - 1) : Aligned(stmt.Conditions[l])

AtClauseError ==
    /\ InLoop
    /\ Statements[idx].Effect = LoopEffect
    /\ ScopeOutcome(es, Statements[idx], request).kind = "apply"
    /\ ClauseError(Statements[idx])

C4_ErrorsAbort ==
    [][AtClauseError => (pc' = "done" /\ result'.kind = "error" /\ idx' = idx)]_vars

\* The permit loop has returned an error for a clause of a permit statement
\* whose scope matches.
C4_Witness ==
    /\ Returned /\ Parsed
    /\ result.kind = "error"
    /\ idx \in StatementIndexes
    /\ Statements[idx].Effect = "PERMIT"
    /\ ScopeOutcome(es, Statements[idx], request).kind = "apply"
    /\ ClauseError(Statements[idx])

(***************************************************************************)
(* C5 (as stated).  A statement whose scope is `action == E`, where the    *)
(* final namespace component of E is not Action, makes Evaluate return the *)
(* error "actions in scope must use Action:: namespace" instead of a       *)
(* decision.                                                               *)
(***************************************************************************)
\* The position of the opening quote of an entity reference, the namespace
\* component before it, and the text between the quotes.
QuoteAt(name) == CHOOSE q \in 1..Len(name) : name[q] = "\"" /\ \A l \in 1..(q - 1) : name[l] # "\""
FinalNamespace(name) == name[QuoteAt(name) - 2]
IdentifierText(name) == SubSeq(name, QuoteAt(name) + 1, Len(name) - 1)
EndsWith(text, suffix) ==
    /\ Len(text) >= Len(suffix)
    /\ SubSeq(text, Len(text) - Len(suffix) + 1, Len(text)) = suffix

OutsideActionNamespace(name) == FinalNamespace(name) # "Action"

Names(any, equals, parent, slot) == any \/ equals = slot \/ parent = slot

OnlyActionList(i) ==
    /\ Statements[i].ActionParents # <<>>
    /\ Statements[i].AnyPrincipal /\ Statements[i].AnyResource
    /\ Statements[i].Conditions = <<>>

\* Statement i was passed over; statement i took effect.
PassedOver(i) == idx # i
TookEffect(i) == idx = i /\ result = Decision(Statements[i].Effect = "PERMIT")

OnlyPrincipalParent(i) ==
    /\ Statements[i].PrincipalParent # <<>>
    /\ Statements[i].AnyAction /\ Statements[i].AnyResource
    /\ Statements[i].Conditions = <<>>

OnlyResourceParent(i) ==
    /\ Statements[i].ResourceParent # <<>>
    /\ Statements[i].AnyPrincipal /\ Statements[i].AnyAction
    /\ Statements[i].Conditions = <<>>

C7_InScopeFollowsTheHierarchy ==
    (Returned /\ Parsed) =>
        \A i \in StatementIndexes :
            /\ (OnlyPrincipalParent(i) /\ Reached(i)) =>
                  IF InMatch(request.principal, Statements[i].PrincipalParent)
                  THEN TookEffect(i) ELSE PassedOver(i)
            /\ (OnlyResourceParent(i) /\ Reached(i)) =>
                  IF InMatch(request.resource, Statements[i].ResourceParent)
                  THEN TookEffect(i) ELSE PassedOver(i)

(***************************************************************************)
(* C8.  A statement whose scope matches takes effect iff every when clause *)
(* evaluates to true and every unless clause to false; the clauses are     *)
(* evaluated in source order, and the first clause that misaligns with its *)
(* kind makes the loop go on to the next statement of the same pass,       *)
(* whatever the clauses after it are.                                      *)
(***************************************************************************)
AtScopeMatch ==
    /\ InLoop
    /\ Statements[idx].Effect = LoopEffect
    /\ ScopeOutcome(es, Statements[idx], request).kind = "apply"

AllAligned(stmt) == \A k \in 1..Len(stmt.Conditions) : Aligned(stmt.Conditions[k])

\* The first clause that does not align is a boolean of the other value.
FirstMisaligns(stmt) ==
    \E k \in 1..Len(stmt.Conditions) :
        /\ Misaligned(stmt.Conditions[k])
        /\ \A l \in 1..(k - 1) : Aligned(stmt.Conditions[l])

C8_ClausesInOrder ==
    [][AtScopeMatch =>
          /\ AllAligned(Statements[idx])
                <=> (pc' = "done" /\ idx' = idx /\ result' = Decision(LoopEffect = "PERMIT"))
          /\ FirstMisaligns(Statements[idx])
                => (pc' = pc /\ idx' = idx + 1 /\ result' = result)]_vars

\* The loop went on past a statement of its effect whose first clause
\* aligned, whose second clause misaligned and whose third is an error or
\* absent.
C8_Witness ==
    /\ pc \in {"forbid", "permit"}
    /\ idx = 2
    /\ Statements[1].Effect = (IF pc = "forbid" THEN "FORBID" ELSE "PERMIT")
    /\ Len(Statements[1].Conditions) >= 2
    /\ Aligned(Statements[1].Conditions[1])
    /\ Misaligned(Statements[1].Conditions[2])

(***************************************************************************)
(* C9 (as stated).  With AllowShortCircuiting on, `true || X` evaluates to *)
(* true and `false && X` to false for every right operand X, also one      *)
(* whose evaluation produces an error: Evaluate returns no error.          *)
(***************************************************************************)
\* What Parse makes of a statement with the one clause.
ClauseStatements(effect, clause) == Parse(ClausePolicy(effect, clause)).stmts

C9_ShortCircuitSuppressesErrors ==
    (Returned /\ Parsed /\ AllowShortCircuiting) =>
        \A effect \in {"PERMIT", "FORBID"}, x \in Operands :
            /\ Statements = ClauseStatements(effect, OrClause(x))
                  => result = Decision(effect = "PERMIT")
            /\ Statements = ClauseStatements(effect, AndClause(x))
                  => result = Decision(FALSE)

(***************************************************************************)
(* C10.  With AllowShortCircuiting off, `true || X`, `false && X` and      *)
(* `if c then a else b` propagate the error of an operand or branch that   *)
(* errors, also of one whose value is not needed: Evaluate returns an      *)
(* error instead of a decision, and the error is the operand's when one    *)
(* operand errors.                                                         *)
(***************************************************************************)
\* The error of evaluating the operand on its own; NoErr when it has none.
OperandError(x) == condEval(Env, ClauseStatements("PERMIT", x)[1].Conditions[1], request).err

FailingOf(xs) == {k \in 1..Len(xs) : OperandError(xs[k]) # NoErr}

Propagated(xs) ==
    /\ result.kind = "error"
    /\ \A k \in FailingOf(xs) : FailingOf(xs) = {k} => result.err = OperandError(xs[k])

C10_ErrorsPropagate ==
    (Returned /\ Parsed /\ ~AllowShortCircuiting) =>
        \A effect \in {"PERMIT", "FORBID"} :
            /\ \A x \in Operands :
                  ( /\ Statements \in {ClauseStatements(effect, OrClause(x)),
                                       ClauseStatements(effect, AndClause(x))}
                    /\ OperandError(x) # NoErr )
                      => Propagated(<<x>>)
            /\ \A c \in Branches, a \in Branches, b \in Branches :
                  ( /\ Statements = ClauseStatements(effect, IteClause(c, a, b))
                    /\ FailingOf(<<c, a, b>>) # {} )
                      => Propagated(<<c, a, b>>)

\* Evaluate returned the error of the else branch of an if whose condition
\* is true.
C10_Witness ==
    /\ Returned /\ Parsed /\ ~AllowShortCircuiting
    /\ Statements = ClauseStatements("PERMIT", IteClause(<<TTrue>>, <<TTrue>>, Missing))
    /\ result = ErrorResult(<<"attribute not set">>)

(***************************************************************************)
(* Clauses with a known value.  A case is [text, val]: the tokens of a     *)
(* clause and the value the language gives it, "TRUE", "FALSE" or "ERROR". *)
(* The policy of a case is `permit(principal, action, resource) when       *)
(* { text };`, so the value shows in what Evaluate returns.                *)
(***************************************************************************)
Case(text, val) == [text |-> text, val |-> val]

CasePolicy(c) == ClausePolicy("PERMIT", c.text)

\* Evaluate ended: it returned or the goroutine panicked.
Ended == pc \in {"done", "crashed"}

\* What Evaluate returns for the policy of a case of value val.
Shows(val) ==
    CASE val = "TRUE" -> result = Decision(TRUE)
      [] val = "FALSE" -> result = Decision(FALSE)
      [] val = "ERROR" -> result.kind = "error"

\* The clause of a policy text that is one permit statement with one when
\* clause and an unrestricted scope; <<>> for another text.
ClauseText(text) ==
    LET clause(t) == IF text = ClausePolicy("PERMIT", t) THEN t ELSE <<>>
    IN  clause(SubSeq(text, 11, Len(text) - 2))

\* The cases of a pool whose policy the evaluator was given.
CasesOf(pool) ==
    LET of(t) == {c \in pool : c.text = t}
    IN  of(ClauseText(policy))

(***************************************************************************)
(* If-then-else clauses: an if over the leaves true, false and a missing   *)
(* attribute, and an if with such an if (in parentheses or not) in its if, *)
(* then or else position.                                                  *)
(***************************************************************************)
Leaves == {Case(<<TTrue>>, "TRUE"), Case(<<TFalse>>, "FALSE"), Case(Missing, "ERROR")}

\* An if whose condition is a long: the reducer of `if` rejects it.
LongIf ==
    Case(Paren(IteClause(<<TLong(1)>>, <<TTrue>>, <<TFalse>>)), "ERROR")

\* The value of `if c then a else b` with short-circuiting: the selected
\* branch, the other one is not looked at.
Select(c, a, b) == IF c = "ERROR" THEN "ERROR" ELSE IF c = "TRUE" THEN a ELSE b

IfCase(c, a, b) ==
    Case(IteClause(c.text, a.text, b.text), Select(c.val, a.val, b.val))

SimpleIfs == {IfCase(c, a, b) : c \in Leaves, a \in Leaves, b \in Leaves}

InParens(cs) == {Case(Paren(c.text), c.val) : c \in cs}

\* The ifs put inside another one: with the value true, false and error,
\* and with an error that is not selected.
InnerIfs ==
    {IfCase(c, a, b) :
        c \in Leaves,
        a \in {Case(<<TTrue>>, "TRUE"), Case(Missing, "ERROR")},
        b \in {Case(<<TFalse>>, "FALSE"), Case(Missing, "ERROR")}}

Inner == InnerIfs \cup InParens(InnerIfs)

NestedIfs ==
    {IfCase(n, a, b) : n \in Inner, a \in Leaves, b \in Leaves}
    \cup {IfCase(c, n, b) : c \in Leaves, n \in Inner, b \in Leaves}
    \cup {IfCase(c, a, n) : c \in Leaves, a \in Leaves, n \in Inner}

\* Ifs with the ill-typed if as a branch.
IllTypedBranchIfs ==
    {IfCase(c, LongIf, b) : c \in Leaves, b \in Leaves}
    \cup {IfCase(c, a, LongIf) : c \in Leaves, a \in Leaves}

IfCases == SimpleIfs \cup NestedIfs \cup IllTypedBranchIfs

InitIf == \E c \in IfCases : NewEvaluator(CasePolicy(c))

SpecIf == InitIf /\ [][Next]_vars

\* No leaf of the clause is the missing attribute and no if is ill-typed.
ErrorFree(c) ==
    \A k \in 1..Len(c.text) : c.text[k].tok \notin {"CONTEXT", "LONG"}

(***************************************************************************)
(* C11.  `if c then a else b`, also with an if-then-else in its if, then   *)
(* or else position, has the value of a when c is true and of b when c is  *)
(* false; with AllowShortCircuiting on an error in the branch that is not  *)
(* selected is suppressed, and an error in c or in the selected branch     *)
(* makes the clause an error.  With AllowShortCircuiting off the same      *)
(* value is required of the clauses in which nothing errors.               *)
(***************************************************************************)
C11_IfSelectsBranch ==
    Ended =>
        \A c \in CasesOf(IfCases) :
            (AllowShortCircuiting \/ ErrorFree(c)) => Shows(c.val)

\* The same over the ifs whose only erroring leaf is the missing attribute.
C11_IfSelectsBranchOfWellTyped ==
    Ended =>
        \A c \in CasesOf(SimpleIfs \cup NestedIfs) :
            (AllowShortCircuiting \/ ErrorFree(c)) => Shows(c.val)

\* An else branch that errors was not selected: the clause is true.
C11_Witness ==
    /\ Ended /\ AllowShortCircuiting
    /\ policy = CasePolicy(IfCase(Case(<<TTrue>>, "TRUE"), Case(<<TTrue>>, "TRUE"),
                                  IfCase(Case(<<TTrue>>, "TRUE"), Case(Missing, "ERROR"),
                                         Case(<<TFalse>>, "FALSE"))))
    /\ result = Decision(TRUE)

(***************************************************************************)
(* Negations: `!e`, `!!e` and `!(!e)` over boolean-valued expressions e.   *)
(***************************************************************************)
TLt == Kw("LT", "<")

BooleanOperands ==
    { Case(<<TTrue>>, "TRUE"),
      Case(<<TFalse>>, "FALSE"),
      Case(Paren(<<TLong(1), TLt, TLong(2)>>), "TRUE"),
      Case(Paren(<<TTrue, TAnd, TFalse>>), "FALSE"),
      Case(TAttr(TContext, "b"), "TRUE") }

Negation(v) == IF v = "TRUE" THEN "FALSE" ELSE "TRUE"

NotCase(e) == Case(<<TNot>> \o e.text, Negation(e.val))

\* `!!e`
NotNotCases == {NotCase(NotCase(e)) : e \in BooleanOperands}

\* `!e` and `!(!e)`
SingleNotCases ==
    {NotCase(e) : e \in BooleanOperands}
    \cup {NotCase(Case(Paren(NotCase(e).text), Negation(e.val))) : e \in BooleanOperands}

NotCases == NotNotCases \cup SingleNotCases

InitNot == \E c \in NotCases : NewEvaluator(CasePolicy(c))

SpecNot == InitNot /\ [][Next]_vars

(***************************************************************************)
(* C12.  Logical not is self-inverse: for a boolean-valued expression e    *)
(* the clause `!!e` has the value of e and `!e` has its negation, without  *)
(* error (and without a crash).                                            *)
(***************************************************************************)
C12_NotIsSelfInverse ==
    Ended => \A c \in CasesOf(NotCases) : Shows(c.val)

\* The same of the clauses in which no `!` directly follows a `!`.
C12_SingleNotNegates ==
    Ended => \A c \in CasesOf(SingleNotCases) : Shows(c.val)

\* `!(!e)` for a true e has returned true.
C12_Witness ==
    /\ Ended
    /\ policy = CasePolicy(NotCase(Case(Paren(<<TNot, TTrue>>), "FALSE")))
    /\ result = Decision(TRUE)

\* Every `!!e` ends in a crash.
C12_DoubleNotCrashes ==
    (Ended /\ CasesOf(NotNotCases) # {}) => pc = "crashed"

(***************************************************************************)
(* An entity in itself: as a clause `E in E` (E written out, or the        *)
(* request's principal, action or resource against its own name) and as    *)
(* the scope `principal in P, action in A, resource in R` of a request for *)
(* P, A and R.  The store has entries for some of the entities only.       *)
(***************************************************************************)
TIn == Kw("IN", "in")
TAction == Kw("ACTION", "action")
TResource == Kw("RESOURCE", "resource")

SelfEntities == {Alice, GroupG, ViewAction, FooView, NestedAction, FolderF, FileD}

\* The entities of the store's text.
HasEntry(e) == \E k \in 1..Len(RawEntities[EntitiesJson]) :
                   RawEntities[EntitiesJson][k].Uid = Name(e)

SelfClause(e) == Toks(e) \o <<TIn>> \o Toks(e)

SlotSelfClause(slot, e) == <<slot, TIn>> \o Toks(e)

SelfScopePolicy(p, a, r) == StmtText("PERMIT", ScopeIn(p), ScopeIn(a), ScopeIn(r), <<>>)

SelfPolicies ==
    {ClausePolicy("PERMIT", SelfClause(e)) : e \in SelfEntities}
    \cup {ClausePolicy("PERMIT", SlotSelfClause(TPrincipal, e)) : e \in {Alice, GroupG}}
    \cup {ClausePolicy("PERMIT", SlotSelfClause(TAction, e)) : e \in {ViewAction, FooView}}
    \cup {ClausePolicy("PERMIT", SlotSelfClause(TResource, e)) : e \in {FolderF, FileD}}
    \cup {SelfScopePolicy(p, a, r) :
             p \in {Alice, GroupG}, a \in {ViewAction, FooView}, r \in {FolderF, FileD}}

InitSelf == \E text \in SelfPolicies : NewEvaluator(text)

SpecSelf == InitSelf /\ [][Next]_vars

(***************************************************************************)
(* C13.  `E in E` is true for every entity reference E, in a condition     *)
(* clause and as a scope, with and without an entity store and whether or  *)
(* not the store has an entry for E: the permit policy whose only test is  *)
(* that an entity is in itself grants the request.                         *)
(***************************************************************************)
C13_EntityInItself ==
    (Ended /\ Parsed) =>
        /\ \A e \in SelfEntities :
               policy = ClausePolicy("PERMIT", SelfClause(e)) => result = Decision(TRUE)
        /\ \A e \in {Alice, GroupG} :
               ( /\ policy = ClausePolicy("PERMIT", SlotSelfClause(TPrincipal, e))
                 /\ request.principal = Name(e) ) => result = Decision(TRUE)
        /\ \A e \in {ViewAction, FooView} :
               ( /\ policy = ClausePolicy("PERMIT", SlotSelfClause(TAction, e))
                 /\ request.action = Name(e) ) => result = Decision(TRUE)
        /\ \A e \in {FolderF, FileD} :
               ( /\ policy = ClausePolicy("PERMIT", SlotSelfClause(TResource, e))
                 /\ request.resource = Name(e) ) => result = Decision(TRUE)
        /\ \A p \in {Alice, GroupG}, a \in {ViewAction, FooView}, r \in {FolderF, FileD} :
               ( /\ policy = SelfScopePolicy(p, a, r)
                 /\ request = Request(Name(p), Name(a), Name(r), ContextText) )
                   => result = Decision(TRUE)

\* With a store attached that has no entry for it, Foo::"view" in itself
\* was found true.
C13_Witness ==
    /\ Ended
    /\ es # NULL
    /\ ~HasEntry(FooView)
    /\ policy = ClausePolicy("PERMIT", SelfClause(FooView))
    /\ result = Decision(TRUE)

\* The same for the scope form, with an entity the store has an entry for.
C13_ScopeWitness ==
    /\ Ended
    /\ es # NULL
    /\ HasEntry(Alice)
    /\ policy = SelfScopePolicy(Alice, FooView, FileD)
    /\ result = Decision(TRUE)

(***************************************************************************)
(* The entity store on its own: a store made from an entity list text      *)
(* (with and without a closing zero byte), SetEntities, and one            *)
(* call of GetEntityDescendents.  `request` holds the ids of the call and  *)
(* `result` what it returned: kind "entities" with the list in value.      *)
(***************************************************************************)
StoreTexts ==
    { <<EntitiesJson>>, <<EntitiesJson, NulByte>>, <<DeepEntitiesJson>>,
      <<DeepEntitiesJson, NulByte>> }

EntityA == [ns |-> <<"T">>, id |-> <<"a">>]
EntityB == [ns |-> <<"T">>, id |-> <<"b">>]
EntityC == [ns |-> <<"T">>, id |-> <<"c">>]

IdPool == {Name(EntityA), Name(EntityB), Name(EntityC), Name(GroupG), Name(FooView)}

IdLists == {<<>>} \cup {<<x>> : x \in IdPool} \cup {<<x, y>> : x \in IdPool, y \in IdPool}

InitStore ==
    /\ \E text \in StoreTexts : es = NewEntityStore(text)
    /\ policy = <<>>
    /\ reader = <<>>
    /\ AllowShortCircuiting = TRUE
    /\ request = <<>>
    /\ policyStatements = NULL
    /\ idx = 0
    /\ pc = "idle"
    /\ result = NoResult
    /\ calls = 0

\* EntityStore.SetEntities
StoreSetEntities ==
    /\ pc = "idle"
    /\ \E text \in StoreTexts : es' = <<[r |-> text, entities |-> NULL]>>
    /\ UNCHANGED <<policy, reader, AllowShortCircuiting, request, policyStatements,
                   idx, pc, result, calls>>

DescendentsResult(d) ==
    IF d.panic THEN PanicResult
    ELSE IF d.err # NoErr THEN ErrorResult(d.err)
    ELSE [kind |-> "entities", value |-> d.entities, err |-> NoErr]

\* One call of EntityStore.GetEntityDescendents.
DescendentsCall ==
    /\ pc = "idle"
    /\ \E ids \in IdLists :
           /\ request' = ids
           /\ result' = DescendentsResult(GetEntityDescendents(es, ids))
    /\ pc' = "done"
    /\ calls' = calls + 1
    /\ UNCHANGED <<policy, reader, es, AllowShortCircuiting, policyStatements, idx>>

NextStore == StoreSetEntities \/ DescendentsCall

SpecStore == InitStore /\ [][NextStore]_vars

\* The entities an entity list text stands for: its JSON array, up to the
\* closing zero byte if there is one.
Denoted(text) ==
    IF text # <<>> /\ text[1] \in DOMAIN RawEntities THEN RawEntities[text[1]] ELSE <<>>

\* x is an id of ids or has a parent chain, within the entities, to one.
RECURSIVE ReachesWithin(_, _, _, _)
ReachesWithin(entities, x, ids, n) ==
    \/ \E k \in 1..Len(ids) : ids[k] = x
    \/ /\ n > 0
       /\ \E k \in 1..Len(entities) :
              /\ entities[k].Uid = x
              /\ \E l \in 1..Len(entities[k].LowerParents) :
                     ReachesWithin(entities, entities[k].LowerParents[l], ids, n - 1)

ExpectedDescendents(entities, ids) ==
    {entities[k].Uid : k \in {j \in 1..Len(entities) :
                                 ReachesWithin(entities, entities[j].Uid, ids, Len(entities))}}

(***************************************************************************)
(* C14.  GetEntityDescendents(ids) returns exactly the entities of the     *)
(* store that are in ids or whose parent chain reaches an id of ids, at    *)
(* every depth: with c in b and b in a, c is among the descendents of a.   *)
(***************************************************************************)
C14_DescendentsAreTheClosure ==
    (pc = "done") =>
        /\ result.kind = "entities"
        /\ {result.value[k].Identifier : k \in 1..Len(result.value)}
              = ExpectedDescendents(Denoted(es[1].r), request)

\* No call returns a list: each one fails.
C14_DescendentsAlwaysFail ==
    (pc = "done") => result.kind = "error"

(***************************************************************************)
(* Arithmetic clauses `a o1 b o2 c == v` over small longs, v the value of  *)
(* a o1 b o2 c under the standard order of operations, and clauses that    *)
(* mix arithmetic with a comparison and with `&&` / `||`.                  *)
(***************************************************************************)
TMinus == Kw("DASH", "-")
TTimes == Kw("MULTIPLIER", "*")
TEq == Kw("EQUALITY", "==")

ArithOps == {"PLUS", "DASH", "MULTIPLIER"}

ArithTok(o) == CASE o = "PLUS" -> TPlus [] o = "DASH" -> TMinus [] o = "MULTIPLIER" -> TTimes

Apply(o, x, y) == CASE o = "PLUS" -> x + y [] o = "DASH" -> x - y [] o = "MULTIPLIER" -> x * y

\* a o1 b o2 c: `*` before `+` and `-`, otherwise left to right.
StandardValue(a, o1, b, o2, c) ==
    IF o2 = "MULTIPLIER" /\ o1 # "MULTIPLIER"
    THEN Apply(o1, a, Apply(o2, b, c))
    ELSE Apply(o2, Apply(o1, a, b), c)

ArithText(a, o1, b, o2, c) == <<TLong(a), ArithTok(o1), TLong(b), ArithTok(o2), TLong(c)>>

\* The chains whose value is a long a literal can state.
ArithChains ==
    {ch \in [a : {4, 5}, o1 : ArithOps, b : {1, 3}, o2 : ArithOps, c : {1, 2}] :
        StandardValue(ch.a, ch.o1, ch.b, ch.o2, ch.c) \in 0..64}

ChainCase(ch) ==
    Case(ArithText(ch.a, ch.o1, ch.b, ch.o2, ch.c)
         \o <<TEq, TLong(StandardValue(ch.a, ch.o1, ch.b, ch.o2, ch.c))>>, "TRUE")

\* The chains in which no `+` follows a `-`.
IsMinusPlus(ch) == ch.o1 = "DASH" /\ ch.o2 = "PLUS"

\* `2 + 3 * 4 + 5 == 19`, parentheses, and arithmetic under a comparison
\* under `&&` and `||`.
MixedCases ==
    { Case(<<TLong(2), TPlus, TLong(3), TTimes, TLong(4), TPlus, TLong(5), TEq, TLong(19)>>,
           "TRUE"),
      Case(Paren(<<TLong(2), TPlus, TLong(3)>>) \o <<TTimes, TLong(4), TEq, TLong(20)>>,
           "TRUE"),
      Case(<<TLong(5), TMinus>> \o Paren(<<TLong(3), TPlus, TLong(1)>>) \o <<TEq, TLong(1)>>,
           "TRUE"),
      Case(<<TLong(1), TPlus, TLong(2), TLt, TLong(2), TTimes, TLong(2)>>, "TRUE"),
      Case(<<TLong(2), TTimes, TLong(2), TLt, TLong(1), TPlus, TLong(2)>>, "FALSE"),
      Case(<<TLong(1), TLt, TLong(2), TAnd, TLong(2), TPlus, TLong(1), TLt, TLong(3)>>,
           "FALSE"),
      Case(<<TLong(3), TLt, TLong(2), TOr, TLong(2), TTimes, TLong(2), TEq, TLong(4)>>,
           "TRUE"),
      Case(<<TLong(1), TPlus, TLong(1), TEq, TLong(2), TAnd, TLong(3), TMinus, TLong(1),
             TEq, TLong(2)>>, "TRUE") }

ArithCases == {ChainCase(ch) : ch \in ArithChains} \cup MixedCases

InitArith == \E c \in ArithCases : NewEvaluator(CasePolicy(c))

SpecArith == InitArith /\ [][Next]_vars

(***************************************************************************)
(* C15.  An arithmetic expression over long literals has its value under   *)
(* the standard order of operations: `*` before `+` and `-`, operators of  *)
(* equal precedence grouped left to right, arithmetic before comparison,   *)
(* comparison before `&&` and `||`.                                        *)
(***************************************************************************)
C15_StandardOrderOfOperations ==
    Ended => \A c \in CasesOf(ArithCases) : Shows(c.val)

\* The same of the clauses other than the chains `a - b + c`.
C15_OrderButMinusPlus ==
    Ended =>
        \A c \in CasesOf({ChainCase(ch) : ch \in {x \in ArithChains : ~IsMinusPlus(x)}}
                         \cup MixedCases) : Shows(c.val)

\* Every chain `a - b + c` is given the value of a - (b + c).
C15_MinusPlusGroupsRight ==
    Ended =>
        \A ch \in {x \in ArithChains : IsMinusPlus(x)} :
            policy = CasePolicy(ChainCase(ch)) => result = Decision(FALSE)

\* `2 + 3 * 4 + 5 == 19` was found true.
C15_Witness ==
    /\ Ended
    /\ policy = CasePolicy(Case(<<TLong(2), TPlus, TLong(3), TTimes, TLong(4), TPlus,
                                  TLong(5), TEq, TLong(19)>>, "TRUE"))
    /\ result = Decision(TRUE)

(***************************************************************************)
(* Equality and inequality over operands of the four types a clause can    *)
(* state without a function call: a pair directly (`a == b`, `a != b`),    *)
(* and the two laws as clauses of their own, `(a == b) != (a != b)` and    *)
(* `(a == b) == (b == a)`.                                                 *)
(***************************************************************************)
TNeq == Kw("INEQUALITY", "!=")
TStr(s) == Tok("DBLQUOTESTR", <<"\"", s, "\"">>)

Operand(text, type) == [text |-> text, type |-> type]

TypedOperands ==
    { Operand(<<TTrue>>, "bool"), Operand(<<TFalse>>, "bool"),
      Operand(TAttr(TContext, "b"), "bool"),
      Operand(<<TLong(1)>>, "long"), Operand(<<TLong(3)>>, "long"),
      Operand(TAttr(TContext, "n"), "long"),
      Operand(<<TStr("abc")>>, "string"), Operand(TAttr(TContext, "s"), "string"),
      Operand(Toks(Alice), "entity"), Operand(<<TPrincipal>>, "entity") }

OperandPairs == {<<a, b>> \in TypedOperands \X TypedOperands : a.type # b.type}

\* What the reducers leave for a pair of operands of different types.
MismatchCases ==
    {Case(q[1].text \o <<TEq>> \o q[2].text, "FALSE") : q \in OperandPairs}
    \cup {Case(q[1].text \o <<TNeq>> \o q[2].text, "TRUE") : q \in OperandPairs}

\* `!=` is the negation of `==`, of whatever types the operands are.
NegationCases ==
    {Case(Paren(a.text \o <<TEq>> \o b.text) \o <<TNeq>>
          \o Paren(a.text \o <<TNeq>> \o b.text), "TRUE") : a, b \in TypedOperands}

\* `==` gives the same for the operands swapped.
SymmetryCases ==
    {Case(Paren(a.text \o <<TEq>> \o b.text) \o <<TEq>>
          \o Paren(b.text \o <<TEq>> \o a.text), "TRUE") : a, b \in TypedOperands}

EqualityCases == MismatchCases \cup NegationCases \cup SymmetryCases

InitEq == \E c \in EqualityCases : NewEvaluator(CasePolicy(c))

SpecEq == InitEq /\ [][Next]_vars

(***************************************************************************)
(* C16.  For operands that are not errors, `a == b` is false and `a != b`  *)
(* is true when a and b are of different types; `!=` is the negation of    *)
(* `==`; and `a == b` has the value of `b == a`.                           *)
(***************************************************************************)
C16_EqualityIsTyped ==
    (Ended /\ Parsed) => \A c \in CasesOf(EqualityCases) : Shows(c.val)

\* `User::"alice" == 3` was evaluated and found false.
C16_Witness ==
    /\ Ended
    /\ policy = CasePolicy(Case(Toks(Alice) \o <<TEq, TLong(3)>>, "FALSE"))
    /\ result = Decision(FALSE)

\* `(context.b == 1) != (context.b != 1)` was evaluated and found true.
C16_NegationWitness ==
    /\ Ended
    /\ policy = CasePolicy(Case(Paren(TAttr(TContext, "b") \o <<TEq, TLong(1)>>) \o <<TNeq>>
                                \o Paren(TAttr(TContext, "b") \o <<TNeq, TLong(1)>>), "TRUE"))
    /\ result = Decision(TRUE)

(***************************************************************************)
(* One evaluator called twice: the second Evaluate calls e.p.Parse() on    *)
(* the parser the first call has read from.                                *)
(***************************************************************************)
MaxRepeats == 2

EvaluateRepeated == EvaluateWithin(MaxRepeats)

NextRepeat ==
    \/ SetEntities
    \/ DisableShortCircuiting
    \/ EvaluateRepeated
    \/ ForbidStep
    \/ ForbidEnd
    \/ PermitStep
    \/ PermitEnd

SpecRepeat == Init /\ [][NextRepeat]_vars

\* What the loop of the given effect returns from statement i on: "none"
\* when it runs to its end.
RECURSIVE LoopResult(_, _, _, _, _)
LoopResult(effect, stmts, i, env, req) ==
    IF i > Len(stmts) THEN NoResult
    ELSE IF stmts[i].Effect # effect THEN LoopResult(effect, stmts, i + 1, env, req)
    ELSE LET outcome(o) ==
                 CASE o.kind = "skip" -> LoopResult(effect, stmts, i + 1, env, req)
                   [] o.kind = "apply" -> Decision(ExplicitDecision(effect))
                   [] o.kind = "error" -> ErrorResult(o.err)
                   [] o.kind = "panic" -> PanicResult
         IN  outcome(StatementOutcome(env, stmts[i], req))

\* What Evaluate returns on an evaluator that has just been made from text.
FreshResult(text, env, req) ==
    LET permits(stmts) ==
            LET permitted(r) == IF r = NoResult THEN Decision(FALSE) ELSE r
            IN  permitted(LoopResult("PERMIT", stmts, 1, env, req))
        forbids(stmts) ==
            LET forbidden(r) == IF r = NoResult THEN permits(stmts) ELSE r
            IN  forbidden(LoopResult("FORBID", stmts, 1, env, req))
        parsed(p) == IF p.err # NoErr THEN ErrorResult(p.err) ELSE forbids(p.stmts)
    IN  parsed(Parse(text))

(***************************************************************************)
(* C17.  Every Evaluate call on one evaluator returns what a fresh         *)
(* evaluator of the same policy, store and short-circuit setting returns   *)
(* for the same request: the second call does not see an empty or a        *)
(* different policy.                                                       *)
(***************************************************************************)
C17_RepeatedEvaluateIsFresh ==
    Ended /\ calls >= 1 => result = FreshResult(policy, Env, request)

\* The first call returns what a fresh evaluator returns.
C17_FirstEvaluateIsFresh ==
    Ended /\ calls = 1 => result = FreshResult(policy, Env, request)

\* After a first call that parsed the policy, a second call finds no
\* statements.
C17_SecondEvaluateFindsNoStatements ==
    Ended /\ calls = 2 /\ Parse(policy).err = NoErr
        => result = ErrorResult(<<"no policy statements found">>)

(***************************************************************************)
(* Policy texts with a malformed statement among statements that decide    *)
(* every request.  A malformed statement is given with the error Parse     *)
(* reports for it when nothing follows it.                                 *)
(***************************************************************************)
TSemi == Kw("SEMICOLON", ";")
TComma == Kw("COMMA", ",")
TWhen == Kw("WHEN", "when")
TLBrace == Kw("LEFT_BRACE", "{")
TRBrace == Kw("RIGHT_BRACE", "}")
THead == <<Kw("PRINCIPAL", "principal"), TComma, Kw("ACTION", "action"), TComma,
           Kw("RESOURCE", "resource")>>

Malformed(text, kind) == [text |-> text, kind |-> kind]

MalformedStatements ==
    { \* foo
      Malformed(<<Kw("IDENT", "foo")>>, "effect"),
      \* permit principal, action, resource);
      Malformed(<<Kw("PERMIT", "permit")>> \o THead \o <<TRParen, TSemi>>, "left parenthesis"),
      \* permit(principal, action, resource;
      Malformed(<<Kw("PERMIT", "permit"), TLParen>> \o THead \o <<TSemi>>,
                "right parenthesis"),
      \* forbid(principal, action, resource) when true };
      Malformed(<<Kw("FORBID", "forbid"), TLParen>> \o THead
                \o <<TRParen, TWhen, TTrue, TRBrace, TSemi>>, "left brace"),
      \* permit(principal, action, resource) when { true ;
      Malformed(<<Kw("PERMIT", "permit"), TLParen>> \o THead
                \o <<TRParen, TWhen, TLBrace, TTrue, TSemi>>, "right brace"),
      \* permit(principal, action, resource)
      Malformed(<<Kw("PERMIT", "permit"), TLParen>> \o THead \o <<TRParen>>, "semicolon"),
      \* forbid(principal == User "alice", action, resource);
      Malformed(<<Kw("FORBID", "forbid"), TLParen, Kw("PRINCIPAL", "principal"),
                  Kw("EQUALITY", "=="), Kw("IDENT", "User"),
                  Tok("DBLQUOTESTR", <<"\"", "alice", "\"">>), TComma,
                  Kw("ACTION", "action"), TComma, Kw("RESOURCE", "resource"), TRParen,
                  TSemi>>, "entity"),
      \* permit(principal, action, resource) when { true when };
      Malformed(<<Kw("PERMIT", "permit"), TLParen>> \o THead
                \o <<TRParen, TWhen, TLBrace, TTrue, TWhen, TRBrace, TSemi>>,
                "condition token") }

DecidingStatements == {Plain("PERMIT"), Plain("FORBID")}

\* A malformed statement after and before statements that decide.
MalformedTexts ==
    {a \o m.text \o b :
        a \in Texts(DecidingStatements, MaxStmts - 1), m \in MalformedStatements,
        b \in Texts(DecidingStatements, 1)}

\* Well-formed texts, of statements that decide and one that applies to one
\* principal only.
WellFormedTexts ==
    Texts(DecidingStatements
          \cup {StmtText("PERMIT", ScopeEq(Alice), ScopeAny, ScopeAny, <<>>)}, MaxStmts)

InitMalformed == \E text \in MalformedTexts \cup WellFormedTexts : NewEvaluator(text)

SpecMalformed == InitMalformed /\ [][Next]_vars

\* The errors Parse has for a malformed statement.
IsParseError(err) ==
    \/ /\ Len(err) >= 3
       /\ err[1] = "found "
       /\ err[Len(err) - 1] = ", expected "
    \/ err[1] = "unexpected token found in condition clause "

(***************************************************************************)
(* C18.  When a statement of the policy text the parser holds is           *)
(* malformed, the call of Evaluate returns a parse error and no decision   *)
(* without entering a loop, also when well-formed statements before the    *)
(* malformed one decide the request.                                       *)
(***************************************************************************)
C18_ParseErrorBeforeAnyDecision ==
    [][(calls' = calls + 1 /\ reader \in MalformedTexts) =>
          /\ pc' = "done"
          /\ result'.kind = "error"
          /\ IsParseError(result'.err)]_vars

\* `forbid(principal, action, resource); foo` was evaluated: the error of
\* `foo` was returned.
C18_Witness ==
    /\ pc = "done"
    /\ policy = Plain("FORBID") \o <<Kw("IDENT", "foo")>>
    /\ result = ErrorResult(Found(<<"foo">>, "permit or forbid"))

(***************************************************************************)
(* Clauses over IP values.  An address is given with the first and the     *)
(* last address of the range it denotes; ip() takes it from the context    *)
(* member of its name, a string attribute.                                 *)
(***************************************************************************)
Address(name, first, last) == [name |-> name, first |-> first, last |-> last]

V6(last) == [k \in 1..16 |-> IF k = 16 THEN last ELSE 0]

Addresses ==
    { Address("a8", <<10, 0, 0, 0>>, <<10, 255, 255, 255>>),
      Address("b9", <<10, 128, 0, 0>>, <<10, 255, 255, 255>>),
      Address("c9", <<10, 0, 0, 0>>, <<10, 127, 255, 255>>),
      Address("g8", <<10, 0, 0, 0>>, <<10, 255, 255, 255>>),
      Address("h24", <<10, 0, 0, 0>>, <<10, 0, 0, 255>>),
      Address("h", <<10, 0, 0, 1>>, <<10, 0, 0, 1>>),
      Address("h32", <<10, 0, 0, 1>>, <<10, 0, 0, 1>>),
      Address("v", V6(1), V6(1)),
      Address("v128", V6(1), V6(1)) }

\* x <= y for two addresses of one family.
RECURSIVE AddressLeq(_, _)
AddressLeq(x, y) ==
    \/ x = <<>>
    \/ Head(x) < Head(y)
    \/ Head(x) = Head(y) /\ AddressLeq(Tail(x), Tail(y))

SameRange(a, b) == a.first = b.first /\ a.last = b.last

\* The first and the last address of a lie inside b.
InsideRange(a, b) ==
    /\ Len(a.first) = Len(b.first)
    /\ AddressLeq(b.first, a.first) /\ AddressLeq(a.first, b.last)
    /\ AddressLeq(b.first, a.last) /\ AddressLeq(a.last, b.last)

TIp(arg) == <<Kw("IDENT", "ip"), TLParen>> \o arg \o <<TRParen>>
TIpOf(a) == TIp(TAttr(TContext, a.name))
TIsInRange(x, y) == x \o <<Kw("PERIOD", "."), Kw("IDENT", "isInRange"), TLParen>> \o y \o <<TRParen>>

Truth(b) == IF b THEN "TRUE" ELSE "FALSE"

RangeCases ==
    {Case(TIsInRange(TIpOf(a), TIpOf(b)), Truth(InsideRange(a, b))) : a, b \in Addresses}

EqualIpCases ==
    {Case(TIpOf(a) \o <<TEq>> \o TIpOf(b), Truth(SameRange(a, b))) : a, b \in Addresses}
    \cup {Case(TIpOf(a) \o <<TNeq>> \o TIpOf(b), Truth(~SameRange(a, b))) :
            a, b \in Addresses}

InitIp == \E c \in RangeCases \cup EqualIpCases : NewEvaluator(CasePolicy(c))

SpecIp == InitIp /\ [][Next]_vars

(***************************************************************************)
(* C19.  ip(a).isInRange(ip(b)) is true exactly when the first and the     *)
(* last address of a lie inside b; it is false when the first address of   *)
(* a lies outside b, also when the last lies inside.                       *)
(***************************************************************************)
C19_IsInRangeTestsBothEnds ==
    Ended => \A c \in CasesOf(RangeCases) : Shows(c.val)

(***************************************************************************)
(* C20.  ip(a) == ip(b) is true exactly when a and b denote the same       *)
(* range, a single address being the range of that one address; ranges of  *)
(* different first addresses are not equal; != is the negation.            *)
(***************************************************************************)
C20_IpEqualityComparesRanges ==
    Ended => \A c \in CasesOf(EqualIpCases) : Shows(c.val)

\* What isInRange answers: whether the last address of a lies inside b.
LastInsideRange(a, b) ==
    /\ Len(a.last) = Len(b.first)
    /\ AddressLeq(b.first, a.last) /\ AddressLeq(a.last, b.last)

C19_IsInRangeTestsLastAddress ==
    Ended =>
        \A a, b \in Addresses :
            policy = CasePolicy(Case(TIsInRange(TIpOf(a), TIpOf(b)), "TRUE"))
                => result = Decision(LastInsideRange(a, b))

\* What == answers of two IP values: whether their last addresses are the
\* same; != answers the opposite.
C20_IpEqualityComparesLastAddress ==
    Ended =>
        \A a, b \in Addresses :
            /\ policy = CasePolicy(Case(TIpOf(a) \o <<TEq>> \o TIpOf(b), "TRUE"))
                   => result = Decision(a.last = b.last)
            /\ policy = CasePolicy(Case(TIpOf(a) \o <<TNeq>> \o TIpOf(b), "TRUE"))
                   => result = Decision(a.last # b.last)

(***************************************************************************)
(* Set literals and their three methods: literals of longs, booleans and   *)
(* strings, with repeated and with no members.                             *)
(***************************************************************************)
TLsqb == Kw("LEFT_SQB", "[")
TRsqb == Kw("RIGHT_SQB", "]")

RECURSIVE SetMembersText(_)
SetMembersText(members) ==
    IF members = <<>> THEN <<>>
    ELSE <<Head(members)>>
         \o (IF Len(members) > 1 THEN <<TComma>> ELSE <<>>)
         \o SetMembersText(Tail(members))

\* [m1, m2, ...]
TSet(members) == <<TLsqb>> \o SetMembersText(members) \o <<TRsqb>>

TMethod(x, name, y) ==
    x \o <<Kw("PERIOD", "."), Kw("IDENT", name), TLParen>> \o y \o <<TRParen>>

SetLiterals ==
    { <<>>, <<TLong(1), TLong(2), TLong(3)>>, <<TLong(5), TLong(4), TLong(3)>>,
      <<TLong(6), TLong(5), TLong(4)>>, <<TLong(1), TLong(2)>>,
      <<TLong(2), TLong(2)>>, <<TTrue, TStr("a")>>, <<TStr("a"), TLong(1)>> }

SetMembers == {TLong(1), TLong(2), TLong(4), TTrue, TFalse, TStr("a"), TStr("b")}

Elements(members) == {members[k] : k \in 1..Len(members)}

ContainsCases ==
    {Case(TMethod(TSet(s), "contains", <<x>>), Truth(x \in Elements(s))) :
        s \in SetLiterals, x \in SetMembers}

ContainsAllCases ==
    {Case(TMethod(TSet(s), "containsAll", TSet(t)),
          Truth(Elements(t) \subseteq Elements(s))) : s, t \in SetLiterals}

ContainsAnyCases ==
    {Case(TMethod(TSet(s), "containsAny", TSet(t)),
          Truth(Elements(s) \cap Elements(t) # {})) : s, t \in SetLiterals}

SetCases == ContainsCases \cup ContainsAllCases \cup ContainsAnyCases

InitSets == \E c \in SetCases : NewEvaluator(CasePolicy(c))

SpecSets == InitSets /\ [][Next]_vars

(***************************************************************************)
(* C21.  For set literals s and t, s.contains(x) is true exactly when x is *)
(* a member of s, s.containsAll(t) exactly when every member of t is a     *)
(* member of s, and s.containsAny(t) exactly when s and t share a member.  *)
(***************************************************************************)
C21_SetMethodsAreMembershipTests ==
    (Ended /\ Parsed) => \A c \in CasesOf(SetCases) : Shows(c.val)

\* [1,2,3].containsAny([5,4,3]) has returned true.
C21_Witness ==
    /\ Returned
    /\ policy = CasePolicy(Case(TMethod(TSet(<<TLong(1), TLong(2), TLong(3)>>),
                                        "containsAny",
                                        TSet(<<TLong(5), TLong(4), TLong(3)>>)), "TRUE"))
    /\ result = Decision(TRUE)

\* [1,2,3].containsAny([6,5,4]) has returned false.
C21_DisjointWitness ==
    /\ Returned
    /\ policy = CasePolicy(Case(TMethod(TSet(<<TLong(1), TLong(2), TLong(3)>>),
                                        "containsAny",
                                        TSet(<<TLong(6), TLong(5), TLong(4)>>)), "FALSE"))
    /\ result = Decision(FALSE)

(***************************************************************************)
(* A string attribute of the context against string literals, with == and  *)
(* with !=, and an attribute the context does not hold.  (The context of   *)
(* every request holds "s": "abc".)                                        *)
(***************************************************************************)
StringLiterals == {"abc", "abd", "s"}

StringAttributeCases ==
    {Case(TAttr(TContext, "s") \o <<TEq, TStr(l)>>, Truth(l = "abc")) :
        l \in StringLiterals}
    \cup {Case(<<TStr(l), TEq>> \o TAttr(TContext, "s"), Truth(l = "abc")) :
            l \in StringLiterals}
    \cup {Case(TAttr(TContext, "s") \o <<TNeq, TStr(l)>>, Truth(l # "abc")) :
            l \in StringLiterals}

UnsetAttributeCases ==
    {Case(TAttr(TContext, "x") \o <<o, TStr(l)>>, "ERROR") :
        o \in {TEq, TNeq}, l \in StringLiterals}

InitStrings ==
    \E c \in StringAttributeCases \cup UnsetAttributeCases : NewEvaluator(CasePolicy(c))

SpecStrings == InitStrings /\ [][Next]_vars

(***************************************************************************)
(* C22.  A string attribute read from the context is equal (==) to the     *)
(* double-quoted literal of the same content and unequal to a literal of   *)
(* another content; reading an attribute that is not set is an error.      *)
(***************************************************************************)
C22_StringAttributeEqualsLiteral ==
    (Ended /\ Parsed) =>
        \A c \in CasesOf(StringAttributeCases \cup UnsetAttributeCases) : Shows(c.val)

\* What the comparisons return: a string attribute is found unequal to
\* every literal, the one of the same content included.
C22_StringAttributeNeverEqualsLiteral ==
    (Ended /\ Parsed) =>
        \A c \in CasesOf(StringAttributeCases) :
            IF \E k \in 1..Len(c.text) : c.text[k] = TEq
            THEN result = Decision(FALSE)
            ELSE result = Decision(TRUE)

\* Reading an attribute that is not set makes Evaluate return the error.
C22_UnsetAttributeIsError ==
    (Ended /\ Parsed) =>
        \A c \in CasesOf(UnsetAttributeCases) :
            /\ result.kind = "error"
            /\ StrContains(result.err, <<"attribute not set">>)

\* `context.s == "abc"` has returned false.
C22_Witness ==
    /\ Returned
    /\ policy = CasePolicy(Case(TAttr(TContext, "s") \o <<TEq, TStr("abc")>>, "TRUE"))
    /\ result = Decision(FALSE)

(***************************************************************************)
(* Policies of two statements and the same two statements in the other     *)
(* order: statements that apply, statements whose scope does not match     *)
(* every request and statements whose clause is an error, of both effects. *)
(***************************************************************************)
OrderStatements ==
    { Plain("PERMIT"),
      Plain("FORBID"),
      StmtText("PERMIT", ScopeEq(Alice), ScopeAny, ScopeAny, <<>>),
      StmtText("FORBID", ScopeAny, ScopeAny, ScopeEq(FolderF), <<>>),
      StmtText("PERMIT", ScopeAny, ScopeAny, ScopeAny, CondText("WHEN", Missing)),
      StmtText("FORBID", ScopeAny, ScopeAny, ScopeAny, CondText("WHEN", Missing)),
      StmtText("PERMIT", ScopeAny, ScopeAny, ScopeAny, CondText("UNLESS", <<TTrue>>)) }

InitOrder == \E a, b \in OrderStatements : NewEvaluator(a \o b)

SpecOrder == InitOrder /\ [][Next]_vars

\* Two returns of Evaluate agree: both errors, or the same decision.
SameReturn(r, q) == r.kind = q.kind /\ (r.kind = "decision" => r = q)

(***************************************************************************)
(* C23.  Permuting the statements of a policy changes neither the decision *)
(* Evaluate returns for a request nor whether it returns an error.         *)
(***************************************************************************)
C23_OrderIndependent ==
    (Ended /\ Parsed) =>
        \A a, b \in OrderStatements :
            policy = a \o b => SameReturn(result, FreshResult(b \o a, Env, request))

\* C23 as amended: when Evaluate returns a decision for both orders of the
\* statements, it is the same decision.
C23_DecisionsAreOrderIndependent ==
    (Ended /\ Parsed) =>
        \A a, b \in OrderStatements :
            (/\ policy = a \o b
             /\ result.kind = "decision"
             /\ FreshResult(b \o a, Env, request).kind = "decision")
                => result = FreshResult(b \o a, Env, request)

\* A permit and a forbid that both apply: denied, and denied in the other
\* order too.
C23_Witness ==
    /\ Returned
    /\ policy = Plain("PERMIT") \o Plain("FORBID")
    /\ result = Decision(FALSE)
    /\ FreshResult(Plain("FORBID") \o Plain("PERMIT"), Env, request) = Decision(FALSE)

\* A permit that applies before a permit whose clause is an error: allowed,
\* where the other order returns the error.
C23_ErrorWitness ==
    /\ Returned
    /\ policy = Plain("PERMIT")
                \o StmtText("PERMIT", ScopeAny, ScopeAny, ScopeAny, CondText("WHEN", Missing))
    /\ result = Decision(TRUE)
    /\ FreshResult(StmtText("PERMIT", ScopeAny, ScopeAny, ScopeAny,
                            CondText("WHEN", Missing)) \o Plain("PERMIT"),
                   Env, request).kind = "error"

(***************************************************************************)
(* Chains a op1 b op2 c of two operators of precedence 3, over longs, a    *)
(* boolean and an entity, and the two ways of putting parentheses in them. *)
(***************************************************************************)
TLte == Kw("LTE", "<=")
TGt == Kw("GT", ">")
TGte == Kw("GTE", ">=")

Level3Ops == {TEq, TNeq, TLt, TLte, TGt, TGte, TIn}

Level3Operands == {TLong(1), TTrue, TPrincipal}

Chain(a, o1, b, o2, c) == [a |-> a, o1 |-> o1, b |-> b, o2 |-> o2, c |-> c]

Level3Chains ==
    {Chain(a, o1, b, o2, c) :
        a \in Level3Operands, o1 \in Level3Ops, b \in {TLong(1), TTrue},
        o2 \in Level3Ops, c \in Level3Operands}

ChainText(h) == <<h.a, h.o1, h.b, h.o2, h.c>>
GroupedLeft(h) == <<TLParen, h.a, h.o1, h.b, TRParen, h.o2, h.c>>
GroupedRight(h) == <<h.a, h.o1, TLParen, h.b, h.o2, h.c, TRParen>>

ChainPolicy(text) == ClausePolicy("PERMIT", text)

InitChains == \E h \in Level3Chains : NewEvaluator(ChainPolicy(ChainText(h)))

SpecChains == InitChains /\ [][Next]_vars

\* The chains whose text the evaluator was given.
ChainsOf(text) ==
    LET of(t) ==
            IF Len(t) = 5 /\ Chain(t[1], t[2], t[3], t[4], t[5]) \in Level3Chains
            THEN {Chain(t[1], t[2], t[3], t[4], t[5])}
            ELSE {}
    IN  of(ClauseText(text))

(***************************************************************************)
(* C24.  A chain a op1 b op2 c of operators of precedence 3 is reduced as  *)
(* (a op1 b) op2 c: Evaluate returns for it what it returns for the chain  *)
(* with the parentheses on the left.                                       *)
(***************************************************************************)
C24_Level3IsLeftAssociative ==
    (Ended /\ Parsed) =>
        \A h \in ChainsOf(policy) :
            result = FreshResult(ChainPolicy(GroupedLeft(h)), Env, request)

\* What the push rule does: a chain is grouped on the left when its second
\* operator is one of the LEFT_ASSOCIATIVE ones, and on the right when it
\* is == or !=.
C24_EqualityGroupsRight ==
    (Ended /\ Parsed) =>
        \A h \in ChainsOf(policy) :
            result = FreshResult(ChainPolicy(IF h.o2 \in {TEq, TNeq}
                                             THEN GroupedRight(h)
                                             ELSE GroupedLeft(h)), Env, request)

\* `1 == 1 == true` has returned false, where `(1 == 1) == true` is true.
C24_Witness ==
    /\ Returned
    /\ policy = ChainPolicy(<<TLong(1), TEq, TLong(1), TEq, TTrue>>)
    /\ result = Decision(FALSE)
    /\ FreshResult(ChainPolicy(<<TLParen, TLong(1), TEq, TLong(1), TRParen, TEq, TTrue>>),
                   Env, request) = Decision(TRUE)

(***************************************************************************)
(* Clauses of every sequence of at most MaxClauseTokens tokens over two    *)
(* values, a unary and three binary operators: the empty clause, values    *)
(* side by side, and operators that lack an operand among them.            *)
(***************************************************************************)
MaxClauseTokens == 3

StackValues == {TLong(1), TTrue}
StackOperators == {TNot, TEq, TPlus, TAnd}

StackClauses == Texts({<<t>> : t \in StackValues \cup StackOperators}, MaxClauseTokens)

InitStack == \E c \in StackClauses : NewEvaluator(ClausePolicy("PERMIT", c))

SpecStack == InitStack /\ [][Next]_vars

\* The clause of the policy is one of the pool's.
OfStackClauses == policy = ClausePolicy("PERMIT", ClauseText(policy))

(***************************************************************************)
(* C25.  condEval ends with a value or an error for every clause the       *)
(* parser accepts; a clause that does not reduce to one value, an operator *)
(* with too few operands and the empty clause among them, gives the error  *)
(* "invalid stack state", and the stack is never read below its bottom.    *)
(***************************************************************************)
C25_NeverReadsBelowTheBottom ==
    OfStackClauses => pc # "crashed"

\* What holds of the clauses without an operator: the empty clause and
\* values side by side give "invalid stack state".
C25_ValuesOnlyGiveInvalidStackState ==
    (Ended /\ Parsed /\ OfStackClauses) =>
        ((/\ Len(ClauseText(policy)) # 1
          /\ \A k \in 1..Len(ClauseText(policy)) : ClauseText(policy)[k] \in StackValues)
            => result = ErrorResult(<<"invalid stack state">>))

\* `1 ==` ended Evaluate with an index out of range.
C25_Witness ==
    /\ pc = "crashed"
    /\ policy = ClausePolicy("PERMIT", <<TLong(1), TEq>>)
    /\ result = PanicResult

\* The empty clause has returned "invalid stack state".
C25_EmptyClauseWitness ==
    /\ Returned
    /\ policy = ClausePolicy("PERMIT", <<>>)
    /\ result = ErrorResult(<<"invalid stack state">>)

(***************************************************************************)
(* Statements with a clause that reduces to one value that is not a        *)
(* boolean: a long, a string, an entity, a set, an IP value, the context;  *)
(* behind a clause that holds, in when and in unless, in permit and in     *)
(* forbid statements, alone or followed by a permit that applies.          *)
(***************************************************************************)
NonBooleanClauses ==
    { <<TLong(1)>>, <<TLong(1), TPlus, TLong(2)>>, <<TStr("abc")>>, <<TPrincipal>>,
      TSet(<<TLong(1), TLong(2)>>), TIp(TAttr(TContext, "a8")), <<TContext>>,
      TAttr(TContext, "s"), TAttr(TContext, "n") }

NonBoolean(effect, type, clause, scoped, followed) ==
    [effect |-> effect, type |-> type, clause |-> clause, scoped |-> scoped,
     followed |-> followed]

NonBooleanStatements ==
    {NonBoolean(e, t, c, s, f) :
        e \in {"PERMIT", "FORBID"}, t \in {"WHEN", "UNLESS"}, c \in NonBooleanClauses,
        s \in BOOLEAN, f \in BOOLEAN}

NonBooleanPolicy(p) ==
    StmtText(p.effect, IF p.scoped THEN ScopeEq(Alice) ELSE ScopeAny, ScopeAny, ScopeAny,
             CondText("WHEN", <<TTrue>>) \o CondText(p.type, p.clause))
    \o (IF p.followed THEN Plain("PERMIT") ELSE <<>>)

InitNonBoolean == \E p \in NonBooleanStatements : NewEvaluator(NonBooleanPolicy(p))

SpecNonBoolean == InitNonBoolean /\ [][Next]_vars

(***************************************************************************)
(* C26.  When a clause of a statement whose scope matches the request      *)
(* reduces to one value that is not a boolean, Evaluate returns an error:  *)
(* the clause does not count as true or false and the statement is not     *)
(* passed over.                                                            *)
(***************************************************************************)
C26_NonBooleanClauseIsAnError ==
    (Ended /\ Parsed) =>
        \A p \in NonBooleanStatements :
            (policy = NonBooleanPolicy(p)
             /\ (p.scoped => request.principal = Name(Alice)))
                => result = ErrorResult(<<"condition return is not boolean">>)

\* A permit statement whose unless clause is the long 1, followed by a
\* permit that applies: the error, not the follower's allow.
C26_Witness ==
    /\ Returned
    /\ policy = NonBooleanPolicy(NonBoolean("PERMIT", "UNLESS", <<TLong(1)>>, FALSE, TRUE))
    /\ result = ErrorResult(<<"condition return is not boolean">>)

(***************************************************************************)
(* Scanner (scanner.go), rune by rune.  A text is the sequence of its      *)
(* runes; Scan answers [tok, lit, rest]: the token, its literal (the runes *)
(* it is made of) and the text left in the reader.                         *)
(***************************************************************************)
\* rune(0), which read returns at the end of the reader.
eof == "eof"

isWhitespace(ch) == ch \in {" ", "\t", "\n"}
\* (of the letters a-z and A-Z, those the texts below are made of)
isLetter(ch) == ch \in {"a", "b", "x", "A"}
isDigit(ch) == ch \in {"0", "1", "2", "3", "4", "5", "6", "7", "8", "9"}

\* Scanner.read: the rune, what is left, and whether a rune was read.
read(inp) ==
    IF inp = <<>> THEN [ch |-> eof, rest |-> <<>>, ok |-> FALSE]
    ELSE [ch |-> Head(inp), rest |-> Tail(inp), ok |-> TRUE]

\* Scanner.unread after the read r of inp: the rune is put back when one
\* was read.
unread(inp, r) == IF r.ok THEN inp ELSE r.rest

\* for isDigit(ch) { lit += string(ch); ch = s.read() }; s.unread()
RECURSIVE scanDigits(_, _)
scanDigits(lit, inp) ==
    LET next(r) ==
            IF isDigit(r.ch) THEN scanDigits(Append(lit, r.ch), r.rest)
            ELSE [lit |-> lit, rest |-> unread(inp, r)]
    IN  next(read(inp))

\* Scanner.scanWhitespace, after its first rune.
RECURSIVE scanWhitespace(_, _)
scanWhitespace(buf, inp) ==
    LET next(r) ==
            IF r.ch = eof THEN [lit |-> buf, rest |-> r.rest]
            ELSE IF ~isWhitespace(r.ch) THEN [lit |-> buf, rest |-> unread(inp, r)]
            ELSE scanWhitespace(Append(buf, r.ch), r.rest)
    IN  next(read(inp))

\* Scanner.scanIdent, after its first rune (of the keywords none is made
\* of the letters above).
RECURSIVE scanIdent(_, _)
scanIdent(buf, inp) ==
    LET next(r) ==
            IF r.ch = eof THEN [lit |-> buf, rest |-> r.rest]
            ELSE IF ~isLetter(r.ch) /\ ~isDigit(r.ch) /\ r.ch # "_"
            THEN [lit |-> buf, rest |-> unread(inp, r)]
            ELSE scanIdent(Append(buf, r.ch), r.rest)
    IN  next(read(inp))

Scanned(tok, s) == [tok |-> tok, lit |-> s.lit, rest |-> s.rest]

\* A variant of Scan for which "-" is the dash operator whatever follows.
ScanDashOnly(inp) ==
    LET first == read(inp)
    IN  IF first.ch = "-" THEN [tok |-> "DASH", lit |-> <<"-">>, rest |-> first.rest]
        ELSE IF isDigit(first.ch) THEN Scanned("LONG", scanDigits(<<first.ch>>, first.rest))
        ELSE IF isWhitespace(first.ch)
        THEN Scanned("WHITESPC", scanWhitespace(<<first.ch>>, first.rest))
        ELSE IF isLetter(first.ch) THEN Scanned("IDENT", scanIdent(<<first.ch>>, first.rest))
        ELSE IF first.ch = eof THEN [tok |-> "EOF", lit |-> <<>>, rest |-> first.rest]
        ELSE IF first.ch = "+" THEN [tok |-> "PLUS", lit |-> <<"+">>, rest |-> first.rest]
        ELSE [tok |-> "ILLEGAL", lit |-> <<first.ch>>, rest |-> first.rest]

\* Scanner.Scan (of the single-rune tokens, "+").
Scan(inp) ==
    LET first == read(inp)
        dash(r) ==
            IF ~isDigit(r.ch)
            THEN [tok |-> "DASH", lit |-> <<"-">>, rest |-> unread(first.rest, r)]
            ELSE Scanned("LONG", scanDigits(<<"-", r.ch>>, r.rest))
    IN  IF isWhitespace(first.ch)
        THEN Scanned("WHITESPC", scanWhitespace(<<first.ch>>, first.rest))
        ELSE IF isLetter(first.ch) THEN Scanned("IDENT", scanIdent(<<first.ch>>, first.rest))
        ELSE IF isDigit(first.ch) THEN Scanned("LONG", scanDigits(<<first.ch>>, first.rest))
        ELSE IF first.ch = eof THEN [tok |-> "EOF", lit |-> <<>>, rest |-> first.rest]
        ELSE IF first.ch = "+" THEN [tok |-> "PLUS", lit |-> <<"+">>, rest |-> first.rest]
        ELSE IF first.ch = "-" THEN dash(read(first.rest))
        ELSE [tok |-> "ILLEGAL", lit |-> <<first.ch>>, rest |-> first.rest]

(***************************************************************************)
(* The scanner as a state machine: `policy` is the text, `reader` what is  *)
(* left of it, `result` the tokens the calls of Scan returned so far, idx  *)
(* their number; pc is "done" when EOF was returned.                       *)
(***************************************************************************)
MaxRunes == 4

Runes == {"a", "-", "1", "5", "3", " ", "+"}

RuneTexts ==
    Texts({<<c>> : c \in Runes}, MaxRunes) \cup {<<"a", " ", "-", " ", "1">>}

InitScan ==
    /\ \E text \in RuneTexts : policy = text /\ reader = text
    /\ es = NULL
    /\ AllowShortCircuiting = TRUE
    /\ request = NoRequest
    /\ policyStatements = NULL
    /\ idx = 0
    /\ pc = "idle"
    /\ result = <<>>
    /\ calls = 0

\* One call of Scanner.Scan.
ScanCall ==
    /\ pc = "idle"
    /\ LET scanned(s) ==
               /\ reader' = s.rest
               /\ result' = Append(result, Tok(s.tok, s.lit))
               /\ pc' = IF s.tok = "EOF" THEN "done" ELSE "idle"
       IN  scanned(Scan(reader))
    /\ idx' = idx + 1
    /\ UNCHANGED <<policy, es, AllowShortCircuiting, request, policyStatements, calls>>

NextScan == ScanCall

SpecScan == InitScan /\ [][NextScan]_vars

\* The digits a text starts with, and the text behind them.
RECURSIVE LeadingDigits(_)
LeadingDigits(text) ==
    IF text # <<>> /\ isDigit(Head(text)) THEN <<Head(text)>> \o LeadingDigits(Tail(text))
    ELSE <<>>

Behind(text, n) == SubSeq(text, n + 1, Len(text))

HasDash(tokens) == \E k \in 1..Len(tokens) : tokens[k].tok = "DASH"

(***************************************************************************)
(* C27.  A "-" directly followed by digits is scanned with them as one     *)
(* negative integer literal; a "-" followed by anything else is the dash   *)
(* operator and what follows it is left unread.  So `a - 1` has a dash     *)
(* token and the literal 1, and `a -1` and `5-3` have no dash token.       *)
(***************************************************************************)
C27_DashBeforeDigitsIsASign ==
    [][/\ (reader # <<>> /\ Head(reader) = "-") =>
               IF LeadingDigits(Tail(reader)) # <<>>
               THEN /\ result'[Len(result')] =
                           Tok("LONG", <<"-">> \o LeadingDigits(Tail(reader)))
                    /\ reader' = Behind(reader, 1 + Len(LeadingDigits(Tail(reader))))
               ELSE /\ result'[Len(result')] = Tok("DASH", <<"-">>)
                    /\ reader' = Tail(reader)
       /\ (pc' = "done" /\ policy = <<"a", " ", "-", " ", "1">>) =>
               result' = <<Tok("IDENT", <<"a">>), Tok("WHITESPC", <<" ">>),
                           Tok("DASH", <<"-">>), Tok("WHITESPC", <<" ">>),
                           Tok("LONG", <<"1">>), Tok("EOF", <<>>)>>
       /\ (pc' = "done" /\ policy \in {<<"a", " ", "-", "1">>, <<"5", "-", "3">>}) =>
               ~HasDash(result')]_vars

\* `5-3` was scanned to its end: the literals 5 and -3.
C27_Witness ==
    /\ pc = "done"
    /\ policy = <<"5", "-", "3">>
    /\ result = <<Tok("LONG", <<"5">>), Tok("LONG", <<"-", "3">>), Tok("EOF", <<>>)>>

\* `a - 1` was scanned to its end with a dash token.
C27_DashWitness ==
    /\ pc = "done"
    /\ policy = <<"a", " ", "-", " ", "1">>
    /\ HasDash(result)

(***************************************************************************)
(* Statements of every scope form in every slot: no restriction, == E,     *)
(* in E, and the list forms in [E, F], in [E] and in [ ].                  *)
(***************************************************************************)
ScopeInOne(e) == <<Kw("IN", "in"), TLsqb>> \o Toks(e) \o <<TRsqb>>
ScopeInNone == <<Kw("IN", "in"), TLsqb, TRsqb>>

ListForms == {ScopeInList(ViewAction, AllActions), ScopeInOne(ViewAction), ScopeInNone}

PrincipalForms == {ScopeAny, ScopeEq(Alice), ScopeIn(GroupG)} \cup ListForms
ActionForms == {ScopeAny, ScopeEq(ViewAction), ScopeIn(AllActions)} \cup ListForms
ResourceForms == {ScopeAny, ScopeEq(FileD), ScopeIn(FolderF)} \cup ListForms

SlotTexts ==
    {StmtText(effect, p, a, r, <<>>) :
        effect \in {"PERMIT", "FORBID"}, p \in PrincipalForms, a \in ActionForms,
        r \in ResourceForms}

\* The texts with a list in the principal or the resource slot, or with the
\* list of no entities.
ListMisuse ==
    {StmtText(effect, p, a, r, <<>>) :
        effect \in {"PERMIT", "FORBID"}, p \in ListForms, a \in ActionForms,
        r \in ResourceForms}
    \cup {StmtText(effect, p, a, r, <<>>) :
            effect \in {"PERMIT", "FORBID"}, p \in PrincipalForms, a \in ActionForms,
            r \in ListForms}
    \cup {StmtText(effect, p, ScopeInNone, r, <<>>) :
            effect \in {"PERMIT", "FORBID"}, p \in PrincipalForms, r \in ResourceForms}

InitSlots == \E text \in SlotTexts : NewEvaluator(text)

SpecSlots == InitSlots /\ [][Next]_vars

ExactlyOne(a, b, c) == (a /\ ~b /\ ~c) \/ (~a /\ b /\ ~c) \/ (~a /\ ~b /\ c)

\* The statement has one scope entry in each slot.
OneEntryPerSlot(stmt) ==
    /\ ExactlyOne(stmt.AnyPrincipal, stmt.Principal # <<>>, stmt.PrincipalParent # <<>>)
    /\ ExactlyOne(stmt.AnyAction, stmt.Action # <<>>, stmt.ActionParents # <<>>)
    /\ ExactlyOne(stmt.AnyResource, stmt.Resource # <<>>, stmt.ResourceParent # <<>>)

(***************************************************************************)
(* C28.  Every statement of a successful Parse has exactly one scope entry *)
(* per slot; a list `in [ ... ]` is accepted in the action slot only, and  *)
(* not without an entity; Evaluate never returns "unknown policy state".   *)
(***************************************************************************)
C28_OneScopeEntryPerSlot ==
    [][/\ (calls' = calls + 1 /\ policyStatements' # NULL) =>
               \A k \in 1..Len(policyStatements'[1]) :
                   OneEntryPerSlot(policyStatements'[1][k])
       /\ (calls' = calls + 1 /\ reader \in ListMisuse) =>
               /\ policyStatements' = NULL
               /\ result'.kind = "error"
       /\ result'.err # <<"unknown policy state">>]_vars

\* A statement with the list in [E, F] in its action slot was parsed.
C28_Witness ==
    /\ Parsed
    /\ policy = StmtText("PERMIT", ScopeEq(Alice), ScopeInList(ViewAction, AllActions),
                         ScopeIn(FolderF), <<>>)
    /\ Len(Statements) = 1
    /\ Statements[1].ActionParents = <<Name(ViewAction), Name(AllActions)>>
    /\ OneEntryPerSlot(Statements[1])

\* `action in [ ]` was refused by Parse.
C28_EmptyListWitness ==
    /\ Returned
    /\ policy = StmtText("PERMIT", ScopeAny, ScopeInNone, ScopeAny, <<>>)
    /\ ~Parsed
    /\ result.kind = "error"

(***************************************************************************)
(* The worklist of GetEntityDescendents on its own: the loop run on entity *)
(* lists over a, b and c whose parent relation has chains, cycles (a in b  *)
(* in a, a in a) and parents that are no entity (x), and on lists of ids.  *)
(* `request` holds the entity list and the ids of the call, `result` the   *)
(* worklist the loop left.                                                 *)
(***************************************************************************)
IdA == Name(EntityA)
IdB == Name(EntityB)
IdC == Name(EntityC)
IdX == Name([ns |-> <<"T">>, id |-> <<"x">>])

BaseEntity(id, parents) == [Identifier |-> id, Parents |-> parents, Attributes |-> <<>>]

BaseEntityLists ==
    {<<BaseEntity(IdA, pa), BaseEntity(IdB, pb), BaseEntity(IdC, pcs)>> :
        pa \in {<<>>, <<IdB>>, <<IdX>>, <<IdA>>, <<IdX, IdB>>},
        pb \in {<<>>, <<IdA>>, <<IdC>>, <<IdX>>},
        pcs \in {<<>>, <<IdB>>, <<IdX>>, <<IdX, IdX>>}}

WorklistIds == {<<>>, <<IdX>>, <<IdA>>, <<IdX, IdX>>, <<IdX, IdA>>, <<IdC, IdX>>}

InitWorklist ==
    /\ policy = <<>>
    /\ reader = <<>>
    /\ es = NULL
    /\ AllowShortCircuiting = TRUE
    /\ request = <<>>
    /\ policyStatements = NULL
    /\ idx = 0
    /\ pc = "idle"
    /\ result = NoResult
    /\ calls = 0

\* The loop of one call of GetEntityDescendents, from its first turn to its
\* end.
WorklistCall ==
    /\ pc = "idle"
    /\ \E base \in BaseEntityLists, ids \in WorklistIds :
           LET ended(r) ==
                   /\ request' = [base |-> base, ids |-> ids]
                   /\ result' = [kind |-> "worklist", value |-> r.parents, err |-> NoErr]
                   /\ pc' = IF r.panic THEN "crashed" ELSE "done"
           IN  ended(DescendentsLoop(base, ids, 1, 1))
    /\ calls' = calls + 1
    /\ UNCHANGED <<policy, reader, es, AllowShortCircuiting, policyStatements, idx>>

NextWorklist == WorklistCall

SpecWorklist == InitWorklist /\ [][NextWorklist]_vars

\* The parent relation of the entity list has a cycle through id.
RECURSIVE IsOwnAncestor(_, _, _, _)
IsOwnAncestor(base, id, from, n) ==
    /\ n > 0
    /\ \E k \in 1..Len(base) :
           /\ base[k].Identifier = from
           /\ \E l \in 1..Len(base[k].Parents) :
                  \/ base[k].Parents[l] = id
                  \/ IsOwnAncestor(base, id, base[k].Parents[l], n - 1)

(***************************************************************************)
(* C29.  The worklist of GetEntityDescendents ends for every entity list,  *)
(* cyclic ones included: an id is added to it at most once, and never one  *)
(* of the ids of the call, so that the worklist is never longer than the   *)
(* ids of the call and the entities of the store together.                 *)
(***************************************************************************)
C29_WorklistIsBounded ==
    Ended =>
        /\ result.kind = "worklist"
        /\ Len(result.value) <= Len(request.ids) + Len(request.base)
        /\ SubSeq(result.value, 1, Len(request.ids)) = request.ids
        /\ \A k \in (Len(request.ids) + 1)..Len(result.value) :
               /\ ~contains(request.ids, result.value[k])
               /\ \A l \in (Len(request.ids) + 1)..Len(result.value) :
                      result.value[k] = result.value[l] => k = l

\* The loop has ended on a list in which a is its own ancestor, with an id
\* added to the worklist.
C29_Witness ==
    /\ Ended
    /\ IsOwnAncestor(request.base, IdA, IdA, Len(request.base))
    /\ Len(result.value) > Len(request.ids)

(***************************************************************************)
(* Clauses with a sub-expression that is an error (an attribute the        *)
(* context does not hold), as an operand of each reducer, on the left and  *)
(* on the right, alone and under a second operator; and the clauses in     *)
(* which && and || do not short-circuit whatever the setting.              *)
(***************************************************************************)
PropagatingOps == {TEq, TNeq, TLt, TLte, TGt, TGte, TPlus, TMinus, TTimes, TIn}

PropagatingOperands == {TLong(1), TTrue, TPrincipal}

\* The error alone under each operator.
OperandErrorClauses ==
    {Missing \o <<o, v>> : o \in PropagatingOps, v \in PropagatingOperands}
    \cup {<<v, o>> \o Missing : o \in PropagatingOps, v \in PropagatingOperands}
    \cup {Missing \o <<o>> \o Missing : o \in PropagatingOps}
    \cup {<<TNot>> \o Missing, TIp(Missing)}

\* The error on the side of && and || that is always looked at.
ConnectiveErrorClauses ==
    {Missing \o <<o, v>> : o \in {TAnd, TOr}, v \in {TTrue, TFalse}}
    \cup {<<TTrue, TAnd>> \o Missing, <<TFalse, TOr>> \o Missing}

\* The error under two operators.
NestedErrorClauses ==
    {Paren(Missing \o <<o, TLong(1)>>) \o <<TEq, v>> :
        o \in PropagatingOps, v \in {TTrue, TFalse}}
    \cup {<<TNot>> \o Paren(Missing \o <<o, TLong(1)>>) : o \in PropagatingOps}
    \cup {<<TTrue, TAnd>> \o Paren(Missing \o <<o, TLong(1)>>) : o \in PropagatingOps}

\* The error in the condition and in the selected branch of an if.
IfErrorClauses ==
    {<<TIf>> \o Missing \o <<TThen, a, TElse, b>> : a, b \in {TTrue, TFalse}}
    \cup {<<TIf, TTrue, TThen>> \o Missing \o <<TElse, b>> : b \in {TTrue, TFalse}}
    \cup {<<TIf, TFalse, TThen, a, TElse>> \o Missing : a \in {TTrue, TFalse}}

\* The error as a member of a set and as the argument of a method.  A
\* member is one item of the stack, so the attribute access is in
\* parentheses: they reduce it before the "]" is reached.
ErrorMember == <<TLsqb>> \o Paren(Missing) \o <<TRsqb>>

MethodErrorClauses ==
    { TMethod(ErrorMember, "contains", <<TLong(1)>>),
      TMethod(<<TLsqb, TLong(1), TComma>> \o Paren(Missing) \o <<TRsqb>>,
              "containsAny", TSet(<<TLong(1)>>)),
      TMethod(TSet(<<TLong(1)>>), "containsAll", ErrorMember),
      TMethod(TSet(<<TLong(1)>>), "contains", Missing),
      TIsInRange(TIp(Missing), TIp(TAttr(TContext, "a8"))),
      TIsInRange(TIp(TAttr(TContext, "a8")), TIp(Missing)) }

ErrorClauses ==
    OperandErrorClauses \cup ConnectiveErrorClauses \cup NestedErrorClauses
    \cup IfErrorClauses \cup MethodErrorClauses

\* Clauses without an error, for the decisions.
SoundClauses == {<<TTrue>>, <<TFalse>>}

InitErrors ==
    \E c \in ErrorClauses \cup SoundClauses : NewEvaluator(ClausePolicy("PERMIT", c))

SpecErrors == InitErrors /\ [][Next]_vars

=============================================================================
